---- MODULE Spec2Model ----
(***************************************************************************)
(* The positional multi-source join engine of pytools (pytools/join.py):   *)
(* Index / IndexCache, RelationJoiner, Joiner, select_columns, Selector    *)
(* and Runner, as a state machine of the generator chain.                  *)
(*                                                                         *)
(* A source is a sequence of lines; a line is the sequence of its fields   *)
(* (what line.split(delimiter) returns: always at least one field).  A     *)
(* field is a string of at most one character.  Offsets are the character  *)
(* offsets of the line starts in the source text.  Source and column       *)
(* numbers are 1-based in ranges and relations (the DSL) and 0-based in    *)
(* index locations and partial rows, as in the code.                       *)
(***************************************************************************)
EXTENDS Integers, Sequences, FiniteSets, TLC

\* ------------------------------------------------------------------ bounds
\* Lines of one source.
MaxLines == 2
\* Lines of all sources together, for Joiner.join.
MaxTotalLines == 4
\* Lines of all sources together, for a direct RelationJoiner.join call.
MaxRelLines == 3
\* Lines of all sources together, for Runner.run.
MaxRunLines == 2
\* Relations of a join key.
MaxRels == 2
\* Incoming rows handed to a direct RelationJoiner.join call.
MaxRows == 2
\* Sources of a column_list handed to select_columns directly.
MaxSelSrc == 4
\* Columns of one source of such a column_list, and the column numbers
\* written in a range (one more, to reach past the last column).
MaxSelCol == 2

\* The sources handed to a join (their 1-based numbers) and the columns of
\* their lines.
\* Sources and columns of the column lists given to select_columns with a
\* target of several ranges.
MaxCatSrc == 2
MaxCatCol == 2

\* Lines of the source of an Index used on its own, and calls made on it.
MaxIdxLines == 2
MaxIdxOps == 3

\* Lines of the left source, and of all sources, of the joins whose order
\* of output is observed.
MaxOrdLeft == 3
MaxOrdLines == 5

\* Relations in a join-key text given to the Parser.
MaxKeyRels == 2

\* Ranges in a target text given to the Parser.
MaxTargetRanges == 3

\* An IndexCache used on its own: lines per source, and calls of get.
MaxCacheLines == 2
MaxCacheOps == 3

\* Lines per source of the runs whose indices may fail to build.
MaxFailLines == 2

\* Lines of all sources together, for a relation step whose rows are
\* followed as objects.
MaxCopyLines == 3
MaxGrepTargets == 2
MaxGrepLines == 3
MaxGrepMatches == 2

SrcNums == {1, 2, 3}
ColNums == {1, 2}
NSrc == Cardinality(SrcNums)
NCol == Cardinality(ColNums)

\* sys.maxsize (Left.ends): only ever used as the end of a slice; the
\* largest integer of the checker stands for it.
MaxSize == 2147483647

Val == {"a", "b"}
None == "None"
NoErr == "none"

Min(a, b) == IF a < b THEN a ELSE b

\* ------------------------------------------------------------ text of lines
\* len(field): the fields are strings of at most one character.
FieldLen(f) == IF f = "" THEN 0 ELSE 1

RECURSIVE SumFieldLen(_)
SumFieldLen(line) ==
  IF line = <<>> THEN 0 ELSE FieldLen(Head(line)) + SumFieldLen(Tail(line))

\* Characters of the line's text, its newline included: the fields, one
\* delimiter between two fields, and the newline.
LineLen(line) == SumFieldLen(line) + (Len(line) - 1) + 1

\* src.tell() before the n-th line (n = 1..): the offset of its start.
RECURSIVE OffsetOf(_, _)
OffsetOf(src, n) ==
  IF n <= 1 THEN 0 ELSE OffsetOf(src, n - 1) + LineLen(src[n - 1])

Offsets(src) == {OffsetOf(src, n) : n \in 1..Len(src)}

\* src.seek(offset); src.readline(): the line that starts at offset.
ReadLineAt(src, offset) ==
  src[CHOOSE n \in 1..Len(src) : OffsetOf(src, n) = offset]

IsSpace(f) == f \in {" ", "\t"}

\* str.rstrip() of a line's text, on its fields (the delimiter is not
\* white space): trailing white space goes, so a last field that is white
\* space becomes empty; the newline is not part of the field list.
Rstrip(line) ==
  IF IsSpace(line[Len(line)])
    THEN [line EXCEPT ![Len(line)] = ""]
    ELSE line

\* A faulty slice: it starts one element late.
PySliceLate(s, i, j) == SubSeq(s, i + 2, Min(j, Len(s)))

\* A faulty slice: bounds given the wrong way round are put in order.
PySliceEitherWay(s, i, j) ==
  IF i <= j THEN SubSeq(s, i + 1, Min(j, Len(s))) ELSE SubSeq(s, j + 1, Min(i, Len(s)))

\* a[i:j] for 0 <= i, 0 <= j.
PySlice(s, i, j) == SubSeq(s, i + 1, Min(j, Len(s)))

RECURSIVE Flatten(_)
Flatten(ss) == IF ss = <<>> THEN <<>> ELSE Head(ss) \o Flatten(Tail(ss))

\* ---------------------------------------------------------------- Location
Location(s, c) == [src |-> s, col |-> c]
LocAdd(loc, sd, cd) == [src |-> loc.src + sd, col |-> loc.col + cd]
LocSetCol(loc, c) == [src |-> loc.src, col |-> c]
LocAddSrc(loc, d) == [src |-> loc.src + d, col |-> loc.col]

\* ------------------------------------------------------------------- Range
Single(loc) == [kind |-> "Single", left |-> loc, right |-> loc]
Left(loc) == [kind |-> "Left", left |-> loc, right |-> loc]
Right(loc) == [kind |-> "Right", left |-> loc, right |-> loc]
Interval(l, r) == [kind |-> "Interval", left |-> l, right |-> r]

\* A faulty Range.ends(): Left ends at its own column, as Single does.
EndsLeftAsSingle(rng) ==
  CASE rng.kind = "Right" -> <<LocAddSrc(LocSetCol(rng.left, 0), -1), rng.left>>
    [] rng.kind = "Interval" -> <<LocAdd(rng.left, -1, -1), rng.right>>
    [] OTHER -> <<LocAdd(rng.left, -1, -1), rng.left>>

\* Range.ends(): the zero-based boundaries <<l, r>>.
Ends(rng) ==
  CASE rng.kind = "Single" -> <<LocAdd(rng.left, -1, -1), rng.left>>
    [] rng.kind = "Left" -> <<LocAdd(rng.left, -1, -1), LocSetCol(rng.left, MaxSize)>>
    [] rng.kind = "Right" -> <<LocAddSrc(LocSetCol(rng.left, 0), -1), rng.left>>
    [] OTHER -> <<LocAdd(rng.left, -1, -1), rng.right>>

\* ------------------------------------------------------------------ Parser
\* A text is the sequence of its characters.
Digits == <<"0", "1", "2", "3", "4", "5", "6", "7", "8", "9">>
IsDigit(ch) == \E i \in 1..Len(Digits) : Digits[i] = ch
DigitVal(ch) == (CHOOSE i \in 1..Len(Digits) : Digits[i] = ch) - 1

\* int(digits).
RECURSIVE IntOf(_)
IntOf(chars) ==
  IF chars = <<>> THEN 0
  ELSE IntOf(SubSeq(chars, 1, Len(chars) - 1)) * 10 + DigitVal(chars[Len(chars)])

\* The place after the digits that start at pos.
RECURSIVE DigitsEnd(_, _)
DigitsEnd(txt, pos) ==
  IF pos <= Len(txt) /\ IsDigit(txt[pos]) THEN DigitsEnd(txt, pos + 1) ELSE pos

\* The tokens of a text: natural = pp.common.integer is one or more digits,
\* converted to int; every other character stands for itself.
RECURSIVE Tokens(_, _)
Tokens(txt, pos) ==
  IF pos > Len(txt) THEN <<>>
  ELSE IF IsDigit(txt[pos])
    THEN <<[t |-> "natural", v |-> IntOf(SubSeq(txt, pos, DigitsEnd(txt, pos) - 1))]>>
         \o Tokens(txt, DigitsEnd(txt, pos))
    ELSE <<[t |-> txt[pos], v |-> 0]>> \o Tokens(txt, pos + 1)

\* The token at k is of kind t.
PLit(toks, k, t) == k <= Len(toks) /\ toks[k].t = t

\* location = pp.Group(natural + "." + natural), matched at k.
PLocation(toks, k) ==
  PLit(toks, k, "natural") /\ PLit(toks, k + 1, ".") /\ PLit(toks, k + 2, "natural")
LocationAt(toks, k) == [src |-> toks[k].v, col |-> toks[k + 2].v]

\* relation = pp.Group(location + "=" + location), matched at k.
PRelation(toks, k) ==
  PLocation(toks, k) /\ PLit(toks, k + 3, "=") /\ PLocation(toks, k + 4)
RelationAt(toks, k) == [left |-> LocationAt(toks, k), right |-> LocationAt(toks, k + 4)]

\* The rest of pp.delimited_list(relation) from k: "," relation, as often
\* as it matches.
RECURSIVE PMoreRelations(_, _, _)
PMoreRelations(toks, k, acc) ==
  IF PLit(toks, k, ",") /\ PRelation(toks, k + 1)
    THEN PMoreRelations(toks, k + 8, Append(acc, RelationAt(toks, k + 1)))
    ELSE [ok |-> k = Len(toks) + 1, val |-> acc]

\* joinkey.parse_string(value, parse_all=True): the whole text must match.
PJoinKey(toks) ==
  IF PRelation(toks, 1)
    THEN PMoreRelations(toks, 8, <<RelationAt(toks, 1)>>)
    ELSE [ok |-> FALSE, val |-> <<>>]

\* Parser.__to_location raises: a source or column number below 1.
ToLocationFails(g) == g.src < 1 \/ g.col < 1
\* Parser.__to_interval of a parsed relation.
ToIntervalFails(x) == ToLocationFails(x.left) \/ ToLocationFails(x.right)
ToInterval(x) ==
  [kind |-> "Interval", left |-> [src |-> x.left.src, col |-> x.left.col],
   right |-> [src |-> x.right.src, col |-> x.right.col]]

\* A faulty check of the relations: only the first one is looked at.
SameSrcFirstOnly(r) == r[1].left.src = r[1].right.src

\* for x in r: if x.left.src == x.right.src: raise.
SameSrc(r) == \E k \in 1..Len(r) : r[k].left.src = r[k].right.src

ParseRaised == [raised |-> TRUE, value |-> <<>>]

\* The checks of parse_joinkey on what the grammar matched.
CheckedJoinKey(r) ==
  IF SameSrc(r) THEN ParseRaised ELSE [raised |-> FALSE, value |-> r]
JoinKeyOf(p) ==
  IF ~p.ok \/ \E k \in 1..Len(p.val) : ToIntervalFails(p.val[k]) THEN ParseRaised
  ELSE CheckedJoinKey([k \in 1..Len(p.val) |-> ToInterval(p.val[k])])

\* Parser.parse_joinkey(value): the JoinKey, or a ValidationException for
\* whatever goes wrong.
ParseJoinkey(txt) == JoinKeyOf(PJoinKey(Tokens(txt, 1)))

\* The elements of a matched range group: location groups and "-".
Dash == [t |-> "-", src |-> 0, col |-> 0]
LocGroup(toks, k) == [t |-> "location", src |-> toks[k].v, col |-> toks[k + 2].v]

\* rng = pp.Group(interval ^ right ^ left ^ single) at k: the number of
\* tokens of the longest alternative that matches, 0 when none does.
PRangeLen(toks, k) ==
  IF PLocation(toks, k) /\ PLit(toks, k + 3, "-") /\ PLocation(toks, k + 4) THEN 7
  ELSE IF PLocation(toks, k) /\ PLit(toks, k + 3, "-") THEN 4
  ELSE IF PLit(toks, k, "-") /\ PLocation(toks, k + 1) THEN 4
  ELSE IF PLocation(toks, k) THEN 3
  ELSE 0

\* The group of the range matched at k.
RangeAt(toks, k) ==
  IF PRangeLen(toks, k) = 7 THEN <<LocGroup(toks, k), Dash, LocGroup(toks, k + 4)>>
  ELSE IF PRangeLen(toks, k) = 3 THEN <<LocGroup(toks, k)>>
  ELSE IF PLit(toks, k, "-") THEN <<Dash, LocGroup(toks, k + 1)>>
  ELSE <<LocGroup(toks, k), Dash>>

\* The rest of pp.delimited_list(rng) from k.
RECURSIVE PMoreRanges(_, _, _)
PMoreRanges(toks, k, acc) ==
  IF PLit(toks, k, ",") /\ PRangeLen(toks, k + 1) > 0
    THEN PMoreRanges(toks, k + 1 + PRangeLen(toks, k + 1), Append(acc, RangeAt(toks, k + 1)))
    ELSE [ok |-> k = Len(toks) + 1, val |-> acc]

\* target.parse_string(value, parse_all=True).
PTarget(toks) ==
  IF PRangeLen(toks, 1) > 0
    THEN PMoreRanges(toks, 1 + PRangeLen(toks, 1), <<RangeAt(toks, 1)>>)
    ELSE [ok |-> FALSE, val |-> <<>>]

\* Parser.__to_location of a location group.
ToLocation(g) == [src |-> g.src, col |-> g.col]

\* Parser.__to_range raises.
ToRangeFails(xs) ==
  IF Len(xs) = 1 THEN ToLocationFails(xs[1])
  ELSE IF Len(xs) = 2
    THEN IF xs[1].t = "-" THEN ToLocationFails(xs[2])
         ELSE IF xs[2].t = "-" THEN ToLocationFails(xs[1])
         ELSE TRUE
  ELSE IF Len(xs) = 3 THEN ToIntervalFails([left |-> xs[1], right |-> xs[3]])
  ELSE TRUE

\* A faulty Parser.__to_range: a group of two is taken for a Left whichever
\* side the "-" is on.
ToRangeAlwaysLeft(xs) ==
  IF Len(xs) = 1 THEN Single(ToLocation(xs[1]))
  ELSE IF Len(xs) = 2
    THEN IF xs[1].t = "-" THEN Left(ToLocation(xs[2])) ELSE Left(ToLocation(xs[1]))
  ELSE ToInterval([left |-> xs[1], right |-> xs[3]])

\* Parser.__to_range of a group that does not make it raise.
ToRange(xs) ==
  IF Len(xs) = 1 THEN Single(ToLocation(xs[1]))
  ELSE IF Len(xs) = 2
    THEN IF xs[1].t = "-" THEN Right(ToLocation(xs[2])) ELSE Left(ToLocation(xs[1]))
  ELSE ToInterval([left |-> xs[1], right |-> xs[3]])

TargetOf(p) ==
  IF ~p.ok \/ \E k \in 1..Len(p.val) : ToRangeFails(p.val[k]) THEN ParseRaised
  ELSE [raised |-> FALSE, value |-> [k \in 1..Len(p.val) |-> ToRange(p.val[k])]]

\* Parser.parse_target(value): the Target, or a ValidationException for
\* whatever goes wrong.
ParseTarget(txt) == TargetOf(PTarget(Tokens(txt, 1)))

\* ------------------------------------------------------------------- Index
\* IndexItem(key, offset).
IndexItem(k, off) == [key |-> k, offset |-> off]

\* IndexCache.__index_key(col, delimiter): line.split(delimiter)[col]; the
\* lookup raises when the line has no field col (0-based).
KeyFails(line, col) == col >= Len(line)
KeyOf(line, col) == line[col + 1]

\* An Index: its source (0-based number), the column of its key function
\* and the dict key -> items, in insertion order, as a sequence of buckets.
EmptyIndex(s, col) == [src |-> s, col |-> col, buckets |-> <<>>]

HasBucket(idx, k) == \E b \in 1..Len(idx.buckets) : idx.buckets[b].key = k
BucketOf(idx, k) == CHOOSE b \in 1..Len(idx.buckets) : idx.buckets[b].key = k

\* A faulty Index.add: a plain dict, the item replaces the key's bucket.
IndexAddOverwrite(idx, item) ==
  IF HasBucket(idx, item.key)
    THEN [idx EXCEPT !.buckets[BucketOf(idx, item.key)].items = <<item>>]
    ELSE [idx EXCEPT !.buckets = Append(@, [key |-> item.key, items |-> <<item>>])]

\* Index.add: self.__index[item.key].append(item) on a defaultdict(list).
IndexAdd(idx, item) ==
  IF HasBucket(idx, item.key)
    THEN [idx EXCEPT !.buckets[BucketOf(idx, item.key)].items = Append(@, item)]
    ELSE [idx EXCEPT !.buckets = Append(@, [key |-> item.key, items |-> <<item>>])]

RemoveAt(s, n) == SubSeq(s, 1, n - 1) \o SubSeq(s, n + 1, Len(s))

\* The first place of x in s.
FirstAt(s, x) == CHOOSE n \in 1..Len(s) : s[n] = x /\ \A m \in 1..(n - 1) : s[m] # x

\* list.remove(x), ValueError passed over: the first x goes, if any.
RemoveFirst(s, x) ==
  IF \E n \in 1..Len(s) : s[n] = x THEN RemoveAt(s, FirstAt(s, x)) ELSE s

\* A faulty Index.delete: the whole bucket of the item's key goes.
IndexDeleteBucket(idx, item) ==
  IF HasBucket(idx, item.key)
    THEN [idx EXCEPT !.buckets = RemoveAt(@, BucketOf(idx, item.key))]
    ELSE idx

\* Index.delete: an absent key is left alone, an empty bucket is deleted,
\* and otherwise the first item equal to the given one is removed, the
\* bucket staying even when it becomes empty.
IndexDelete(idx, item) ==
  IF ~HasBucket(idx, item.key) THEN idx
  ELSE IF idx.buckets[BucketOf(idx, item.key)].items = <<>>
    THEN [idx EXCEPT !.buckets = RemoveAt(@, BucketOf(idx, item.key))]
  ELSE [idx EXCEPT !.buckets[BucketOf(idx, item.key)].items = RemoveFirst(@, item)]

\* Index.get returns None: the key is absent or its bucket is empty.
IndexGetNone(idx, k) ==
  ~(HasBucket(idx, k) /\ idx.buckets[BucketOf(idx, k)].items # <<>>)

\* Index.get: the items it returns (no items where it returns None) ...
IndexGet(idx, k) ==
  IF IndexGetNone(idx, k) THEN <<>> ELSE idx.buckets[BucketOf(idx, k)].items

\* A faulty Index.get: the bucket it finds is taken out of the dict.
IndexAfterGetPops(idx, k) ==
  IF HasBucket(idx, k) THEN [idx EXCEPT !.buckets = RemoveAt(@, BucketOf(idx, k))] ELSE idx

\* ... and the index it leaves: an empty bucket found by the lookup is
\* deleted.
IndexAfterGet(idx, k) ==
  IF HasBucket(idx, k) /\ idx.buckets[BucketOf(idx, k)].items = <<>>
    THEN [idx EXCEPT !.buckets = RemoveAt(@, BucketOf(idx, k))]
    ELSE idx

RECURSIVE Reverse(_)
Reverse(s) == IF s = <<>> THEN <<>> ELSE Append(Reverse(Tail(s)), Head(s))

\* A faulty Index.items: the buckets are visited last key first.
IndexItemsLastKeyFirst(idx) ==
  Flatten(Reverse([b \in 1..Len(idx.buckets) |-> idx.buckets[b].items]))

\* Index.items: every item, bucket after bucket.
IndexItems(idx) == Flatten([b \in 1..Len(idx.buckets) |-> idx.buckets[b].items])

\* A faulty Index.read: no seek, the first line of the source is read.
IndexReadNoSeek(sources, idx, item) == Rstrip(sources[idx.src + 1][1])

\* Index.read(item).line: seek to the item's offset, readline, rstrip.
IndexRead(sources, idx, item) == Rstrip(ReadLineAt(sources[idx.src + 1], item.offset))

\* A faulty key of a bound item: the key the item carries, not the line's.
RowKeyFromItem(sources, idx, item) == item.key

\* index.key(index.read(item).line): the key of a bound item's line under
\* the key function of the index, from the text of the line.
RowKey(sources, idx, item) == KeyOf(IndexRead(sources, idx, item), idx.col)

\* The loop of Index.new from the n-th line on: offset = tell(), readline,
\* rstrip, key, add.  A line without the key's column raises.
RECURSIVE IndexScan(_, _, _)
IndexScan(idx, src, n) ==
  IF n > Len(src) THEN [ok |-> TRUE, index |-> idx]
  ELSE IF KeyFails(Rstrip(src[n]), idx.col) THEN [ok |-> FALSE, index |-> idx]
  ELSE IndexScan(
         IndexAdd(idx, IndexItem(KeyOf(Rstrip(src[n]), idx.col), OffsetOf(src, n))),
         src, n + 1)

\* Index.new(src, key): a source that is not seekable is refused; seek(0)
\* and scan every line.
IndexNew(sources, seekable, s, col) ==
  IF ~seekable[s + 1] THEN [ok |-> FALSE, index |-> EmptyIndex(s, col)]
  ELSE IndexScan(EmptyIndex(s, col), sources[s + 1], 1)

\* -------------------------------------------------------------- IndexCache
\* A faulty IndexCache.get: the Index is stored before it is filled, so
\* that a scan that raises leaves what it had built in the cache.
CacheGetStoresFirst(sources, seekable, cch, loc) ==
  IF loc \in DOMAIN cch THEN [err |-> NoErr, cache |-> cch]
  ELSE IF ~(0 <= loc.src /\ loc.src < Len(sources))
    THEN [err |-> "MissingIndexOutOfRange", cache |-> cch]
  ELSE IF ~seekable[loc.src + 1] THEN [err |-> "MissingIndexNotSeekable", cache |-> cch]
  ELSE [err |-> IF IndexNew(sources, seekable, loc.src, loc.col).ok
                  THEN NoErr ELSE "MissingIndexNewKey",
        cache |-> [l \in DOMAIN cch \cup {loc} |->
                     IF l = loc THEN IndexNew(sources, seekable, loc.src, loc.col).index
                     ELSE cch[l]]]

\* IndexCache.get(loc, delimiter) as called by RelationJoiner.__get_index:
\* the error it raises (NoErr when none) and the cache it leaves.  A
\* location already cached is returned as it is; a new Index is stored
\* only when Index.new returned.
CacheGet(sources, seekable, cch, loc) ==
  IF loc \in DOMAIN cch THEN [err |-> NoErr, cache |-> cch]
  ELSE IF ~(0 <= loc.src /\ loc.src < Len(sources))
    THEN [err |-> "MissingIndexOutOfRange", cache |-> cch]
  ELSE LET new == IndexNew(sources, seekable, loc.src, loc.col)
       IN  IF ~seekable[loc.src + 1] THEN [err |-> "MissingIndexNotSeekable", cache |-> cch]
           ELSE IF ~new.ok THEN [err |-> "MissingIndexNewKey", cache |-> cch]
           ELSE [err |-> NoErr,
                 cache |-> [l \in DOMAIN cch \cup {loc} |->
                              IF l = loc THEN new.index ELSE cch[l]]]

\* IndexCache.get reads the source of loc: the location is not cached, its
\* source exists and Index.new accepts it.
CacheScans(sources, seekable, cch, loc) ==
  /\ loc \notin DOMAIN cch
  /\ 0 <= loc.src /\ loc.src < Len(sources)
  /\ seekable[loc.src + 1]

\* ---------------------------------------------------------- select_columns
\* A faulty in_src_range: len(column_list) itself is accepted.
InSrcRangeInclusive(column_list, s) == 0 <= s /\ s <= Len(column_list)

\* in_src_range(src).
InSrcRange(column_list, s) == 0 <= s /\ s < Len(column_list)

\* select(rng) raises.
SelectFails(rng, column_list) ==
  ~(InSrcRange(column_list, Ends(rng)[1].src)
    /\ InSrcRange(column_list, Ends(rng)[2].src - 1))

\* A faulty select(rng): over two sources the first one is taken whole.
SelectRangeWholeFirst(rng, column_list) ==
  LET l == Ends(rng)[1]
      r == Ends(rng)[2]
      srcs == PySlice(column_list, l.src, r.src)
      x == Len(srcs)
  IN  CASE x = 0 -> <<>>
        [] x = 1 -> PySlice(srcs[1], l.col, r.col)
        [] x = 2 -> srcs[1] \o PySlice(srcs[2], 0, r.col)
        [] OTHER -> PySlice(srcs[1], l.col, MaxSize)
                    \o Flatten(PySlice(srcs, 1, r.src - 1))
                    \o PySlice(srcs[x], 0, r.col)

\* select(rng) when it does not raise.
SelectRange(rng, column_list) ==
  LET l == Ends(rng)[1]
      r == Ends(rng)[2]
      srcs == PySlice(column_list, l.src, r.src)
      x == Len(srcs)
  IN  CASE x = 0 -> <<>>
        [] x = 1 -> PySlice(srcs[1], l.col, r.col)
        [] x = 2 -> PySlice(srcs[1], l.col, MaxSize) \o PySlice(srcs[2], 0, r.col)
        [] OTHER -> PySlice(srcs[1], l.col, MaxSize)
                    \o Flatten(PySlice(srcs, 1, r.src - 1))
                    \o PySlice(srcs[x], 0, r.col)

\* The elements of a list without its repetitions, in first-seen order.
RECURSIVE Dedup(_)
Dedup(cols) ==
  IF cols = <<>> THEN <<>>
  ELSE LET d == Dedup(SubSeq(cols, 1, Len(cols) - 1))
           x == cols[Len(cols)]
       IN  IF \E k \in 1..Len(d) : d[k] = x THEN d ELSE Append(d, x)

\* A faulty select_columns: a column selected twice is returned once.
SelectColumnsOnce(target, column_list) ==
  Dedup(Flatten([t \in 1..Len(target) |-> SelectRange(target[t], column_list)]))

\* select_columns(target, column_list): it raises when some range does,
\* and returns the concatenation of the ranges' columns otherwise.
SelectColumnsFails(target, column_list) ==
  \E t \in 1..Len(target) : SelectFails(target[t], column_list)

SelectColumns(target, column_list) ==
  Flatten([t \in 1..Len(target) |-> SelectRange(target[t], column_list)])

\* -------------------------------------------------------------- partial row
\* A JoinItemList: the dict src -> JoinItem, as a function from the bound
\* sources (0-based) to their IndexItems.
EmptyRow == [s \in {} |-> None]
RowKeys(row) == DOMAIN row
\* JoinItemList.get(src) is not None.
RowHas(row, s) == s \in DOMAIN row
\* A faulty copy and set: the copy is keyed by the offsets of the items, so
\* that a binding with the offset of the new item is lost.
RowSetByOffset(row, s, item) ==
  [t \in {u \in DOMAIN row : row[u].offset # item.offset} \cup {s} |->
     IF t = s THEN item ELSE row[t]]

\* JoinItemList.copy() followed by set(JoinItem(src, item)).
RowSet(row, s, item) == [t \in DOMAIN row \cup {s} |-> IF t = s THEN item ELSE row[t]]

\* JoinItemLists as objects: the heap is the sequence of their dicts, an
\* object is known by its place in it.
\* A faulty JoinItemList.copy(): the list itself is returned.
HeapCopySame(heap, id) == [heap |-> heap, id |-> id]
\* JoinItemList.copy(): a new list with the bindings of this one.
HeapCopy(heap, id) == [heap |-> Append(heap, heap[id]), id |-> Len(heap) + 1]
\* JoinItemList(): a new list without bindings.
HeapNew(heap) == [heap |-> Append(heap, EmptyRow), id |-> Len(heap) + 1]
\* JoinItemList.set(JoinItem(src, item)) on the object id.
HeapSet(heap, id, s, item) == [heap EXCEPT ![id] = RowSet(heap[id], s, item)]

\* The sources of a row in ascending order (JoinItemList.items / keys).
RECURSIVE SortedSeq(_)
SortedSeq(S) ==
  IF S = {} THEN <<>>
  ELSE LET m == CHOOSE x \in S : \A y \in S : x <= y
       IN  <<m>> \o SortedSeq(S \ {m})

\* ---------------------------------------------------------------- Selector
\* Selector.__read(src, offset).
SelectorRead(sources, s, offset) == Rstrip(ReadLineAt(sources[s + 1], offset))

\* The column_list Selector.select builds: the split lines of the bound
\* sources, in ascending source order.
ColumnListOf(sources, row) ==
  LET ks == SortedSeq(RowKeys(row))
  IN  [n \in 1..Len(ks) |-> SelectorRead(sources, ks[n], row[ks[n]].offset)]

\* delimiter.join(columns): the characters of the output line.
RECURSIVE JoinStr(_)
JoinStr(cols) ==
  IF cols = <<>> THEN <<>>
  ELSE IF Len(cols) = 1 THEN (IF cols[1] = "" THEN <<>> ELSE <<cols[1]>>)
  ELSE (IF cols[1] = "" THEN <<>> ELSE <<cols[1]>>) \o <<",">> \o JoinStr(Tail(cols))

SelectorFails(target, sources, row) ==
  SelectColumnsFails(target, ColumnListOf(sources, row))

SelectorSelect(target, sources, row) ==
  JoinStr(SelectColumns(target, ColumnListOf(sources, row)))

\* =================================================================== state
VARIABLES
  mode,         \* "rel": RelationJoiner.join called with rows; "join":
                \* Joiner.join drained into a list; "run": Runner.run;
                \* "select": select_columns called on its own
  sources,      \* the sources: the lines of each, as fields
  seekable,     \* whether each source is seekable
  grep,         \* setgrep: the Arguments of its Runner, seed.values in the
                \* order a loop over the set visits them, matcher.matches,
                \* the source lines read so far and where run stands
  dbg,          \* Joiner.join(join_key, dbg=True): the whole key, the place
                \* of the relation being joined, the materialized rows of
                \* the relation before it and how many of them were handed on
  join_key,     \* the JoinKey: relations with 1-based Locations
  rows,         \* the rows argument of the first step: None or "iter"
  target,       \* the Target: a sequence of ranges
  cache,        \* IndexCache.__cache: Location (0-based) -> Index
  gen,          \* the generator of each relation step
  ctl,          \* the frame that runs (0: the incoming rows, 1..K: the
                \* steps, K+1: the consumer) and what it was handed
  val,          \* the row handed over by a yield
  out,          \* the rows the last step has yielded to the consumer
  lines,        \* the output lines of Runner.run
  err,          \* the exception that ended the run (NoErr: none)
  emitted,      \* per step: the rows yielded for its current incoming row
  first_srcs,   \* per step: the sources bound in the first row it received
  nrows,        \* rows handed in by the incoming iterator so far
  nyield,       \* per step: the rows it has yielded so far
  ntaken,       \* per step: the incoming rows it has taken in so far
  column_list,  \* the column_list of the last select_columns call
  selected,     \* what that call returned, or that it raised
  index,        \* an Index used on its own: its source number, the column
                \* of its key function and its dict of buckets
  stored,       \* the items add has put into it and delete not removed
  got,          \* the last call on it and what the call returned
  calls,        \* the calls made on it so far, by name
  text,         \* the text given to the Parser
  parsed        \* what the Parser returned, or that it raised

vars == <<mode, sources, seekable, grep, dbg, join_key, rows, target, cache, gen, ctl, val, out,
          lines, err, emitted, first_srcs, nrows, nyield, ntaken,
          column_list, selected, index, stored, got, calls, text, parsed>>

\* The state of an Index and of the Parser exercised on their own.
unit_state == <<index, stored, got, calls, text, parsed>>

\* What the join leaves alone: its inputs, and setgrep.
inputs == <<mode, sources, seekable, grep, dbg, join_key, rows, target>>

K == Len(join_key)

\* lkey, rkey = rel.left.add(-1, -1), rel.right.add(-1, -1).
Lkey(i) == LocAdd(join_key[i].left, -1, -1)
Rkey(i) == LocAdd(join_key[i].right, -1, -1)

\* A faulty Joiner.join: every relation is joined without incoming rows.
FullJoinEveryStep(i) == rows = None

\* RelationJoiner.join runs __full_join: rows is None.  Joiner.join hands
\* None to the first relation only.
FullJoin(i) == i = 1 /\ rows = None

\* ------------------------------------------------------------------ setgrep
\* A str is the sequence of its characters.
IsWhite(ch) == ch \in {" ", "\t", "\n"}

\* str.rstrip().
RECURSIVE StrRstrip(_)
StrRstrip(str) ==
  IF str # <<>> /\ IsWhite(str[Len(str)])
    THEN StrRstrip(SubSeq(str, 1, Len(str) - 1))
    ELSE str

\* v in line.
StrIn(v, line) ==
  \E i \in 1..(Len(line) + 1) :
    /\ i + Len(v) - 1 <= Len(line)
    /\ SubSeq(line, i, i + Len(v) - 1) = v

\* The orders in which a loop over a set can visit its elements.
VisitOrders(S) ==
  {o \in [1..Cardinality(S) -> S] : \A i, j \in DOMAIN o : i # j => o[i] # o[j]}

\* set(x.rstrip() for x in textiter(self.args.target)).
SeedValues(tgt) == {StrRstrip(tgt[n]) : n \in 1..Len(tgt)}

NoMatch == [found |-> FALSE, line |-> <<>>, target |-> <<>>]

\* Seed.find: in perfect mode the line is the target of the Match; else
\* the first value of the set that is in the line.
SeedFind(values, perfect, line) ==
  IF perfect
    THEN IF \E i \in 1..Len(values) : values[i] = StrRstrip(line)
           THEN [found |-> TRUE, line |-> line, target |-> line]
           ELSE NoMatch
    ELSE IF \E i \in 1..Len(values) : StrIn(values[i], line)
           THEN [found |-> TRUE, line |-> line,
                 target |-> values[CHOOSE i \in 1..Len(values) :
                              /\ StrIn(values[i], line)
                              /\ \A j \in 1..(i - 1) : ~StrIn(values[j], line)]]
           ELSE NoMatch

\* Seed.remove raises KeyError: set.remove of a value not in the set.
SeedRemoveRaises(values, tgt) == \A i \in 1..Len(values) : values[i] # tgt

\* Seed.remove.
SeedRemove(values, tgt) == SelectSeq(values, LAMBDA v : v # tgt)

\* self.matches.get(m.target, 0).
MatchesGet(matches, tgt) == IF tgt \in DOMAIN matches THEN matches[tgt] ELSE 0

\* del self.matches[m.target].
MatchesDel(matches, tgt) == [t \in DOMAIN matches \ {tgt} |-> matches[t]]

\* self.matches[m.target] = c + 1.
MatchesSet(matches, tgt, c) ==
  [t \in DOMAIN matches \cup {tgt} |-> IF t = tgt THEN c ELSE matches[t]]

\* Matcher.max_matches_enabled.
MaxMatchesEnabled(g) == g.max_matches > 0

\* Matcher.match: the Match it returns (found: not None), the values and
\* the matches it leaves, and the exception it raises.
MatcherMatch(g, line) ==
  LET m == SeedFind(g.values, g.perfect, line)
      c == MatchesGet(g.matches, m.target)
      same == [m |-> NoMatch, values |-> g.values, matches |-> g.matches, err |-> NoErr]
  IN  IF ~m.found THEN same
      ELSE IF ~MaxMatchesEnabled(g) THEN [same EXCEPT !.m = m]
      ELSE IF c >= g.max_matches
        THEN IF SeedRemoveRaises(g.values, m.target)
               THEN [same EXCEPT !.matches = MatchesDel(g.matches, m.target),
                                 !.err = "KeyError"]
               ELSE [same EXCEPT !.matches = MatchesDel(g.matches, m.target),
                                 !.values = SeedRemove(g.values, m.target)]
        ELSE [same EXCEPT !.m = m, !.matches = MatchesSet(g.matches, m.target, c + 1)]

\* No setgrep Runner.
NoGrep ==
  [at |-> "none", target |-> <<>>, source |-> <<>>, max_matches |-> 0,
   perfect |-> FALSE, values |-> <<>>, matches |-> [t \in {} |-> 0], pos |-> 0,
   hits |-> <<>>]

\* Lines of the target and of the source, with and without a newline.
GrepTargetLines == {<<"t">>, <<"t", "\n">>, <<"u">>, <<"t", "u", "\n">>}
GrepSourceLines ==
  {<<"t">>, <<"t", "\n">>, <<"t", " ">>, <<"u", "\n">>, <<"t", "u", "\n">>}

SeqsUpTo(S, lo, hi) == UNION {[1..n -> S] : n \in lo..hi}

\* Joiner.join called without dbg.
NoDbg == [on |-> FALSE, key |-> <<>>, i |-> 0, rows |-> <<>>, pos |-> 0]

NewGen ==
  [pc |-> "new", li |-> 0, row |-> EmptyRow, pend |-> <<>>, bind |-> 0,
   is_initial |-> TRUE, row_srcs |-> {}]

NoSelection == [raised |-> FALSE, cols |-> <<>>]

\* No call made on the Index yet.
NoCall ==
  [op |-> "none", item |-> IndexItem("", 0), key |-> "", none |-> TRUE,
   items |-> <<>>, line |-> <<>>]

\* The Parser not called yet.
NoParse == [raised |-> FALSE, value |-> <<>>]

\* Neither an Index nor the Parser is exercised on its own.
InitNoUnit ==
  /\ index = EmptyIndex(0, 0)
  /\ stored = <<>>
  /\ got = NoCall
  /\ calls = <<>>
  /\ text = <<>>
  /\ parsed = NoParse

\* ------------------------------------------------------------------ inputs
LineSet == [1..NCol -> Val]
SrcSet == UNION {[1..n -> LineSet] : n \in 0..MaxLines}

RECURSIVE TotalLines(_)
TotalLines(ss) == IF ss = <<>> THEN 0 ELSE Len(Head(ss)) + TotalLines(Tail(ss))

\* The sources of a join: at most total lines in all.
SourcesSet(total) == {ss \in [1..NSrc -> SrcSet] : TotalLines(ss) <= total}

LocSet == {Location(s, c) : s \in SrcNums, c \in ColNums}
\* A JoinKeyRelation names two different sources (Parser.parse_joinkey).
RelSet == {Interval(p[1], p[2]) : p \in {q \in LocSet \X LocSet : q[1].src # q[2].src}}
\* The relations from source 1 to source 2.
FirstRelSet == {r \in RelSet : r.left.src = 1 /\ r.right.src = 2}
\* The join keys, of any relations ...
KeySet == UNION {[1..k -> RelSet] : k \in 1..MaxRels}
\* ... and those that start with a relation from source 1 to source 2
\* (every other key is one of these with the sources renumbered).
KeySet12 == {k \in KeySet : k[1] \in FirstRelSet}

\* The join keys of a run: one relation of any two sources, or more
\* relations starting from source 1 to source 2.
RunKeySet == {k \in KeySet : Len(k) = 1 \/ k[1] \in FirstRelSet}

\* The targets of a run: one column of one source, which may be a source
\* beyond the ones supplied (Parser.parse_target accepts any number >= 1).
RunLocSet == {Location(s, c) : s \in SrcNums \cup {NSrc + 1}, c \in ColNums}
TargetSet == {<<Single(l)>> : l \in RunLocSet}

\* select_columns called on its own.  A column is named by its place,
\* <<source, column>>, so that a result says which columns it is made of.
Cell(s, c) == <<s, c>>
SelColumnLists ==
  UNION {{[s \in 1..n |-> [c \in 1..w[s] |-> Cell(s, c)]] : w \in [1..n -> 1..MaxSelCol]} :
         n \in 0..MaxSelSrc}
SelLocSet == {Location(s, c) : s \in 1..(MaxSelSrc + 1), c \in 1..(MaxSelCol + 1)}
SelRangeSet ==
  {Single(l) : l \in SelLocSet} \cup {Left(l) : l \in SelLocSet}
  \cup {Right(l) : l \in SelLocSet}
  \cup {Interval(p[1], p[2]) : p \in SelLocSet \X SelLocSet}

\* select_columns called with a target of up to two ranges, on column
\* lists whose sources all have MaxCatCol columns.
CatColumnLists ==
  {[s \in 1..n |-> [c \in 1..MaxCatCol |-> Cell(s, c)]] : n \in 0..MaxCatSrc}
CatLocSet == {Location(s, c) : s \in 1..(MaxCatSrc + 1), c \in 1..(MaxCatCol + 1)}
CatRangeSet ==
  {Single(l) : l \in CatLocSet} \cup {Left(l) : l \in CatLocSet}
  \cup {Right(l) : l \in CatLocSet}
  \cup {Interval(p[1], p[2]) : p \in CatLocSet \X CatLocSet}
CatTargetSet == UNION {[1..n -> CatRangeSet] : n \in 0..2}

\* The joins whose order of output is observed: a longer left source, and
\* the key 1.1=2.1 alone or followed by a relation that brings in source 3.
OrdSourcesSet ==
  {ss \in [1..NSrc -> UNION {[1..n -> LineSet] : n \in 0..MaxOrdLeft}] :
     /\ \A s \in 2..NSrc : Len(ss[s]) <= MaxLines
     /\ TotalLines(ss) <= MaxOrdLines}
OrdKeySet ==
  {<<Interval(Location(1, 1), Location(2, 1))>>,
   <<Interval(Location(1, 1), Location(2, 1)), Interval(Location(2, 2), Location(3, 1))>>,
   <<Interval(Location(1, 1), Location(2, 1)), Interval(Location(3, 1), Location(1, 2))>>}

\* The join-key texts given to the Parser: up to MaxKeyRels pieces with
\* commas between, a piece being a relation over a few numbers or
\* something that is no relation.
SrcTexts == {<<"0">>, <<"1">>, <<"2">>, <<"0", "1">>}
ColTexts == {<<"0">>, <<"1">>}
RelText(a, c, b, d) == a \o <<".">> \o c \o <<"=">> \o b \o <<".">> \o d
RelTexts == {RelText(a, c, b, d) : a \in SrcTexts, c \in ColTexts, b \in SrcTexts, d \in ColTexts}
NoRelTexts ==
  {<<>>, <<"1", ".", "1">>, <<"1", ".", "1", "=">>, <<"=", "1", ".", "1">>,
   <<"1", "=", "2", ".", "1">>, <<"1", ".", "1", "-", "2", ".", "1">>}
RECURSIVE JoinPieces(_)
JoinPieces(ps) ==
  IF Len(ps) = 1 THEN ps[1]
  ELSE JoinPieces(SubSeq(ps, 1, Len(ps) - 1)) \o <<",">> \o ps[Len(ps)]
JoinKeyTexts ==
  {JoinPieces(ps) : ps \in UNION {[1..n -> RelTexts \cup NoRelTexts] : n \in 1..MaxKeyRels}}

\* The target texts given to the Parser: up to MaxTargetRanges pieces with
\* commas between, a piece being a range over a few locations or
\* something that is no range.
LocTexts == {<<"1", ".", "1">>, <<"2", ".", "1", "2">>, <<"0", ".", "1">>}
RangeTexts ==
  LocTexts \cup {l \o <<"-">> : l \in LocTexts} \cup {<<"-">> \o l : l \in LocTexts}
  \cup {l \o <<"-">> \o r : l \in LocTexts, r \in LocTexts}
NoRangeTexts ==
  {<<>>, <<"1", ".", "0">>, <<"1", ".", "1", "-", "-">>, <<"1", "-", "1", ".", "1">>,
   <<"1", ".", "1", "=", "2", ".", "1">>}
TargetTexts ==
  {JoinPieces(ps) : ps \in UNION {[1..n -> RangeTexts \cup NoRangeTexts] : n \in 1..MaxTargetRanges}}

\* An IndexCache used on its own: two sources, seekable or not, whose
\* lines have one or two fields, and locations of up to one source and one
\* column more than that.
CacheLineSet == {<<"a">>, <<"a", "b">>}
CacheSrcSet == UNION {[1..n -> CacheLineSet] : n \in 0..MaxCacheLines}
CacheLocSet == {Location(s, c) : s \in 0..2, c \in 0..1}

\* The runs whose indices may fail to build: two sources of lines that all
\* match, with one or two fields, seekable or not, and join keys of one or
\* two relations that may name a third source.
FailSrcSet == UNION {[1..n -> CacheLineSet] : n \in 1..MaxFailLines}
FailLocSet ==
  {Location(1, 1), Location(1, 2), Location(2, 1), Location(2, 2), Location(3, 1)}
FailRelSet ==
  {Interval(p[1], p[2]) : p \in {q \in FailLocSet \X FailLocSet : q[1].src # q[2].src}}
FailKeySet == UNION {[1..k -> FailRelSet] : k \in 1..2}

\* An Index used on its own: the fields of its source may be white space
\* or empty.
IdxVal == {"a", " ", ""}
IdxLineSet == [1..NCol -> IdxVal]
IdxSrcSet == UNION {[1..n -> IdxLineSet] : n \in 0..MaxIdxLines}
\* The items given to Index.add and Index.delete.
IdxItemSet(src) == {IndexItem(k, o) : k \in {"a", " "}, o \in {0} \cup Offsets(src)}

\* The IndexItems an Index over some column of the source can hold.
ItemsOf(src) ==
  {IndexItem(KeyOf(Rstrip(src[n]), c), OffsetOf(src, n)) :
     n \in 1..Len(src), c \in 0..(NCol - 1)}

\* The partial rows over the sources: some sources bound, each to an item
\* of that source.
RowsOver(ss) ==
  UNION {{row \in [D -> UNION {ItemsOf(ss[s + 1]) : s \in D}] :
            \A s \in D : row[s] \in ItemsOf(ss[s + 1])} :
         D \in SUBSET (0..(Len(ss) - 1))}

InitCommon ==
  /\ InitNoUnit
  /\ column_list = <<>>
  /\ cache = [l \in {} |-> None]
  /\ gen = [i \in 1..K |-> NewGen]
  /\ ctl = [at |-> K + 1, msg |-> "start"]
  /\ val = EmptyRow
  /\ out = <<>>
  /\ lines = <<>>
  /\ err = NoErr
  /\ emitted = [i \in 1..K |-> <<>>]
  /\ first_srcs = [i \in 1..K |-> [set |-> FALSE, keys |-> {}]]
  /\ nrows = 0
  /\ nyield = [i \in 1..K |-> 0]
  /\ ntaken = [i \in 1..K |-> 0]
  /\ selected = NoSelection

\* RelationJoiner.join(rel, rows) called with an iterator of rows.
InitRel ==
  /\ mode = "rel"
  /\ sources \in SourcesSet(MaxRelLines)
  /\ seekable = [s \in 1..Len(sources) |-> TRUE]
  /\ grep = NoGrep
  /\ dbg = NoDbg
  /\ join_key \in [1..1 -> FirstRelSet]
  /\ rows = "iter"
  /\ target = <<>>
  /\ InitCommon

\* list(Joiner.join(join_key)).
InitJoin ==
  /\ mode = "join"
  /\ sources \in SourcesSet(MaxTotalLines)
  /\ seekable = [s \in 1..Len(sources) |-> TRUE]
  /\ grep = NoGrep
  /\ dbg = NoDbg
  /\ join_key \in KeySet12
  /\ rows = None
  /\ target = <<>>
  /\ InitCommon

\* list(Joiner.join(join_key)), its order observed.
InitOrd ==
  /\ mode = "join"
  /\ sources \in OrdSourcesSet
  /\ seekable = [s \in 1..Len(sources) |-> TRUE]
  /\ grep = NoGrep
  /\ dbg = NoDbg
  /\ join_key \in OrdKeySet
  /\ rows = None
  /\ target = <<>>
  /\ InitCommon

\* Runner.run with a parsed join key and target.
InitRun ==
  /\ mode = "run"
  /\ sources \in SourcesSet(MaxRunLines)
  /\ seekable = [s \in 1..Len(sources) |-> TRUE]
  /\ grep = NoGrep
  /\ dbg = NoDbg
  /\ join_key \in RunKeySet
  /\ rows = None
  /\ target \in TargetSet
  /\ InitCommon

\* Runner.run over the longer sources, projecting the first column of the
\* first source.
InitLazy ==
  /\ mode = "run"
  /\ sources \in OrdSourcesSet
  /\ seekable = [s \in 1..Len(sources) |-> TRUE]
  /\ grep = NoGrep
  /\ dbg = NoDbg
  /\ join_key \in OrdKeySet
  /\ rows = None
  /\ target = <<Single(Location(1, 1))>>
  /\ InitCommon

\* select_columns(target, column_list) called with one range.
InitSel ==
  /\ InitNoUnit
  /\ mode = "select"
  /\ sources = <<>>
  /\ seekable = [s \in 1..Len(sources) |-> TRUE]
  /\ grep = NoGrep
  /\ dbg = NoDbg
  /\ join_key = <<>>
  /\ rows = None
  /\ target \in {<<r>> : r \in SelRangeSet}
  /\ cache = [l \in {} |-> None]
  /\ gen = <<>>
  /\ ctl = [at |-> 0, msg |-> "start"]
  /\ val = EmptyRow
  /\ out = <<>>
  /\ lines = <<>>
  /\ err = NoErr
  /\ emitted = <<>>
  /\ first_srcs = <<>>
  /\ nrows = 0
  /\ nyield = <<>>
  /\ ntaken = <<>>
  /\ column_list \in SelColumnLists
  /\ selected = NoSelection

\* select_columns(target, column_list) called with up to two ranges.
InitCat ==
  /\ InitNoUnit
  /\ mode = "select"
  /\ sources = <<>>
  /\ seekable = [s \in 1..Len(sources) |-> TRUE]
  /\ grep = NoGrep
  /\ dbg = NoDbg
  /\ join_key = <<>>
  /\ rows = None
  /\ target \in CatTargetSet
  /\ cache = [l \in {} |-> None]
  /\ gen = <<>>
  /\ ctl = [at |-> 0, msg |-> "start"]
  /\ val = EmptyRow
  /\ out = <<>>
  /\ lines = <<>>
  /\ err = NoErr
  /\ emitted = <<>>
  /\ first_srcs = <<>>
  /\ nrows = 0
  /\ nyield = <<>>
  /\ ntaken = <<>>
  /\ column_list \in CatColumnLists
  /\ selected = NoSelection

\* Index(src, key) on a source, with the key function of some column.
InitIdx ==
  /\ mode = "index"
  /\ sources \in {<<src>> : src \in IdxSrcSet}
  /\ seekable = [s \in 1..Len(sources) |-> TRUE]
  /\ grep = NoGrep
  /\ dbg = NoDbg
  /\ join_key = <<>>
  /\ rows = None
  /\ target = <<>>
  /\ cache = [l \in {} |-> None]
  /\ gen = <<>>
  /\ ctl = [at |-> 0, msg |-> "start"]
  /\ val = EmptyRow
  /\ out = <<>>
  /\ lines = <<>>
  /\ err = NoErr
  /\ emitted = <<>>
  /\ first_srcs = <<>>
  /\ nrows = 0
  /\ nyield = <<>>
  /\ ntaken = <<>>
  /\ column_list = <<>>
  /\ selected = NoSelection
  /\ index \in {EmptyIndex(0, c) : c \in 0..(NCol - 1)}
  /\ stored = <<>>
  /\ got = NoCall
  /\ calls = <<>>
  /\ text = <<>>
  /\ parsed = NoParse

\* Parser.parse_joinkey(value) on a text.
InitParseKey ==
  /\ mode = "parse"
  /\ sources = <<>>
  /\ seekable = [s \in 1..Len(sources) |-> TRUE]
  /\ grep = NoGrep
  /\ dbg = NoDbg
  /\ join_key = <<>>
  /\ rows = None
  /\ target = <<>>
  /\ cache = [l \in {} |-> None]
  /\ gen = <<>>
  /\ ctl = [at |-> 0, msg |-> "start"]
  /\ val = EmptyRow
  /\ out = <<>>
  /\ lines = <<>>
  /\ err = NoErr
  /\ emitted = <<>>
  /\ first_srcs = <<>>
  /\ nrows = 0
  /\ nyield = <<>>
  /\ ntaken = <<>>
  /\ column_list = <<>>
  /\ selected = NoSelection
  /\ index = EmptyIndex(0, 0)
  /\ stored = <<>>
  /\ got = NoCall
  /\ calls = <<>>
  /\ text \in JoinKeyTexts
  /\ parsed = NoParse

\* Parser.parse_target(value) on a text.
InitParseTarget ==
  /\ mode = "target"
  /\ sources = <<>>
  /\ seekable = [s \in 1..Len(sources) |-> TRUE]
  /\ grep = NoGrep
  /\ dbg = NoDbg
  /\ join_key = <<>>
  /\ rows = None
  /\ target = <<>>
  /\ cache = [l \in {} |-> None]
  /\ gen = <<>>
  /\ ctl = [at |-> 0, msg |-> "start"]
  /\ val = EmptyRow
  /\ out = <<>>
  /\ lines = <<>>
  /\ err = NoErr
  /\ emitted = <<>>
  /\ first_srcs = <<>>
  /\ nrows = 0
  /\ nyield = <<>>
  /\ ntaken = <<>>
  /\ column_list = <<>>
  /\ selected = NoSelection
  /\ index = EmptyIndex(0, 0)
  /\ stored = <<>>
  /\ got = NoCall
  /\ calls = <<>>
  /\ text \in TargetTexts
  /\ parsed = NoParse

\* setgrep: Arguments(target, source, max_matches, perfect).runner().
InitGrep ==
  /\ mode = "setgrep"
  /\ sources = <<>>
  /\ seekable = [s \in 1..Len(sources) |-> TRUE]
  /\ \E tgt \in SeqsUpTo(GrepTargetLines, 1, MaxGrepTargets),
        src \in SeqsUpTo(GrepSourceLines, 0, MaxGrepLines),
        n \in 0..MaxGrepMatches, p \in BOOLEAN :
       grep = [NoGrep EXCEPT !.at = "new", !.target = tgt, !.source = src,
                             !.max_matches = n, !.perfect = p]
  /\ dbg = NoDbg
  /\ join_key = <<>>
  /\ rows = None
  /\ target = <<>>
  /\ cache = [l \in {} |-> None]
  /\ gen = <<>>
  /\ ctl = [at |-> 0, msg |-> "start"]
  /\ val = EmptyRow
  /\ out = <<>>
  /\ lines = <<>>
  /\ err = NoErr
  /\ emitted = <<>>
  /\ first_srcs = <<>>
  /\ nrows = 0
  /\ nyield = <<>>
  /\ ntaken = <<>>
  /\ column_list = <<>>
  /\ selected = NoSelection
  /\ index = EmptyIndex(0, 0)
  /\ stored = <<>>
  /\ got = NoCall
  /\ calls = <<>>
  /\ text = <<>>
  /\ parsed = NoParse

\* Runner.run over sources that may not be indexable.
InitFail ==
  /\ mode = "run"
  /\ sources \in [1..2 -> FailSrcSet]
  /\ seekable \in [1..2 -> BOOLEAN]
  /\ grep = NoGrep
  /\ dbg = NoDbg
  /\ join_key \in FailKeySet
  /\ rows = None
  /\ target = <<Single(Location(1, 1))>>
  /\ InitCommon

\* One relation step, its rows followed as objects: RelationJoiner.join
\* with one incoming row (the object 1), or without rows.
NoBase == [base |-> 0, row |-> EmptyRow, pend |-> <<>>, bind |-> 0]
InitCopy ==
  /\ mode = "copy"
  /\ sources \in SourcesSet(MaxCopyLines)
  /\ seekable = [s \in 1..Len(sources) |-> TRUE]
  /\ grep = NoGrep
  /\ dbg = NoDbg
  /\ join_key \in [1..1 -> FirstRelSet]
  /\ rows \in {None, "iter"}
  /\ target = <<>>
  /\ val \in IF rows = None THEN {EmptyRow} ELSE RowsOver(sources)
  /\ stored = IF rows = None THEN <<>> ELSE <<val>>
  /\ cache = [l \in {} |-> None]
  /\ gen = <<NoBase>>
  /\ ctl = [at |-> 1, msg |-> "start"]
  /\ out = <<>>
  /\ lines = <<>>
  /\ err = NoErr
  /\ emitted = <<>>
  /\ first_srcs = <<>>
  /\ nrows = 0
  /\ nyield = <<>>
  /\ ntaken = <<>>
  /\ column_list = <<>>
  /\ selected = NoSelection
  /\ index = EmptyIndex(0, 0)
  /\ got = NoCall
  /\ calls = <<>>
  /\ text = <<>>
  /\ parsed = NoParse

\* IndexCache(srcs), get called on it.
InitCache ==
  /\ mode = "cache"
  /\ sources \in [1..2 -> CacheSrcSet]
  /\ seekable \in [1..2 -> BOOLEAN]
  /\ grep = NoGrep
  /\ dbg = NoDbg
  /\ join_key = <<>>
  /\ rows = None
  /\ target = <<>>
  /\ cache = [l \in {} |-> None]
  /\ gen = <<>>
  /\ ctl = [at |-> 0, msg |-> "start"]
  /\ val = EmptyRow
  /\ out = <<>>
  /\ lines = <<>>
  /\ err = NoErr
  /\ emitted = <<>>
  /\ first_srcs = <<>>
  /\ nrows = 0
  /\ nyield = <<>>
  /\ ntaken = <<>>
  /\ column_list = <<>>
  /\ selected = NoSelection
  /\ index = EmptyIndex(0, 0)
  /\ stored = [l \in {} |-> 0]
  /\ got = NoCall
  /\ calls = <<>>
  /\ text = <<>>
  /\ parsed = NoParse

\* ----------------------------------------------------------------- actions
\* A faulty raise: the exception is swallowed and the iteration ends as if
\* the last generator had finished.
RaiseAsStop(e) ==
  /\ err' = e
  /\ ctl' = [at |-> K + 1, msg |-> "stop"]

\* An exception leaves every generator and ends the run.
Raise(e) ==
  /\ err' = e
  /\ ctl' = [at |-> K + 1, msg |-> "raised"]

\* lindex, rindex = self.__get_index(lkey), self.__get_index(rkey): the
\* error of the pair of calls and the cache they leave.
GetIndex(i) ==
  LET first == CacheGet(sources, seekable, cache, Lkey(i))
  IN  IF first.err # NoErr THEN first ELSE CacheGet(sources, seekable, first.cache, Rkey(i))

\* rindex.get(k) on the cached index at loc: the cache it leaves.
CacheAfterLookup(cch, loc, k) == [cch EXCEPT ![loc] = IndexAfterGet(cch[loc], k)]

\* __full_join's outer loop from the j-th of the items of lindex.items()
\* on: the items whose key rindex.get does not find are skipped.
RECURSIVE FullAdvance(_, _, _, _)
FullAdvance(cch, litems, rk, j) ==
  IF j > Len(litems) THEN [cache |-> cch, found |-> FALSE, li |-> j]
  ELSE IF IndexGetNone(cch[rk], litems[j].key)
    THEN FullAdvance(CacheAfterLookup(cch, rk, litems[j].key), litems, rk, j + 1)
  ELSE [cache |-> CacheAfterLookup(cch, rk, litems[j].key), found |-> TRUE, li |-> j]

\* A faulty yield: the generator does not suspend, it goes on to compute
\* its next row.
YieldAndGoOn(i, row) ==
  /\ val' = row
  /\ ctl' = [at |-> i, msg |-> "next"]
  /\ nyield' = [nyield EXCEPT ![i] = @ + 1]

\* yield: the generator suspends and the row goes to the frame above.
Yield(i, row) ==
  /\ val' = row
  /\ ctl' = [at |-> i + 1, msg |-> "row"]
  /\ nyield' = [nyield EXCEPT ![i] = @ + 1]

\* The consumer starts the iteration.  Joiner.join refuses an empty key.
Begin ==
  /\ mode # "select"
  /\ ctl.msg = "start"
  /\ IF K = 0
       THEN Raise("JoinKeyEmpty")
       ELSE /\ ctl' = [at |-> K, msg |-> "next"]
            /\ err' = err
  /\ UNCHANGED <<inputs, unit_state, nyield, ntaken, cache, gen, val, out, lines, emitted, first_srcs,
                 nrows, column_list, selected>>

\* next() on the generator of step i: it starts (building its two
\* indices) or resumes after its last yield, and runs until it yields,
\* asks its incoming rows for the next one, or ends.
StepNext(i) ==
  /\ ctl.at = i /\ ctl.msg = "next"
  /\ LET starting == gen[i].pc = "new"
         gi == IF starting THEN GetIndex(i) ELSE [err |-> NoErr, cache |-> cache]
         e == gi.err
         c == gi.cache
         g == gen[i]
     IN  IF e # NoErr THEN
           /\ Raise(e)
           /\ cache' = c
           /\ UNCHANGED <<gen, val, emitted, nyield>>
         ELSE IF g.pend # <<>> THEN
           \* the inner for loop goes on: p = r.copy(); p.set(...); yield p
           /\ Yield(i, RowSet(g.row, g.bind, Head(g.pend)))
           /\ gen' = [gen EXCEPT ![i].pend = Tail(g.pend)]
           /\ emitted' = [emitted EXCEPT ![i] = Append(@, RowSet(g.row, g.bind, Head(g.pend)))]
           /\ UNCHANGED <<cache, err>>
         ELSE IF FullJoin(i) THEN
           LET litems == IndexItems(c[Lkey(i)])
               a == FullAdvance(c, litems, Rkey(i), g.li + 1)
               litem == litems[a.li]
               ritems == IndexGet(c[Rkey(i)], litem.key)
               r == RowSet(EmptyRow, Lkey(i).src, litem)
           IN  IF a.found THEN
                 /\ Yield(i, RowSet(r, Rkey(i).src, Head(ritems)))
                 /\ gen' = [gen EXCEPT ![i] =
                      [g EXCEPT !.pc = "run", !.li = a.li, !.row = r,
                                !.pend = Tail(ritems), !.bind = Rkey(i).src]]
                 /\ emitted' = [emitted EXCEPT ![i] = <<RowSet(r, Rkey(i).src, Head(ritems))>>]
                 /\ cache' = a.cache
                 /\ err' = err
               ELSE
                 /\ gen' = [gen EXCEPT ![i] = [g EXCEPT !.pc = "done", !.li = a.li]]
                 /\ ctl' = [at |-> i + 1, msg |-> "stop"]
                 /\ cache' = a.cache
                 /\ UNCHANGED <<val, emitted, err, nyield>>
         ELSE
           \* for row in rows: the next incoming row is asked for
           /\ gen' = [gen EXCEPT ![i].pc = "run"]
           /\ ctl' = [at |-> i - 1, msg |-> "next"]
           /\ cache' = c
           /\ UNCHANGED <<val, emitted, err, nyield>>
  /\ UNCHANGED <<inputs, unit_state, ntaken, out, lines, first_srcs, nrows, column_list, selected>>

\* The incoming row reaches step i: the body of "for row in rows".
StepRow(i) ==
  /\ ctl.at = i /\ ctl.msg = "row"
  /\ LET row == val
         g == gen[i]
         lk == Lkey(i)
         rk == Rkey(i)
         lindex == cache[lk]
         rindex == cache[rk]
         hasl == RowHas(row, lk.src)
         hasr == RowHas(row, rk.src)
         lkv == RowKey(sources, lindex, row[lk.src])
         rkv == RowKey(sources, rindex, row[rk.src])
         Pull == /\ ctl' = [at |-> i - 1, msg |-> "next"]
                 /\ UNCHANGED <<val, nyield>>
     IN  /\ ntaken' = [ntaken EXCEPT ![i] = @ + 1]
         /\ first_srcs' = IF first_srcs[i].set THEN first_srcs
                          ELSE [first_srcs EXCEPT ![i] = [set |-> TRUE, keys |-> RowKeys(row)]]
         /\ IF ~g.is_initial /\ RowKeys(row) # g.row_srcs THEN
              /\ Raise("InconsistentColumns")
              /\ UNCHANGED <<gen, val, emitted, cache, nyield>>
            ELSE
              /\ err' = err
              /\ IF ~hasl /\ ~hasr THEN
                   \* case (None, None): pass
                   /\ Pull
                   /\ gen' = [gen EXCEPT ![i] =
                        [g EXCEPT !.row = row, !.row_srcs = RowKeys(row), !.pend = <<>>]]
                   /\ emitted' = [emitted EXCEPT ![i] = <<>>]
                   /\ cache' = cache
                 ELSE IF hasl /\ ~hasr THEN
                   \* case (lrow, None)
                   /\ cache' = CacheAfterLookup(cache, rk, lkv)
                   /\ IF IndexGetNone(rindex, lkv) THEN
                        /\ Pull
                        /\ gen' = [gen EXCEPT ![i] =
                             [g EXCEPT !.row = row, !.row_srcs = RowKeys(row), !.pend = <<>>]]
                        /\ emitted' = [emitted EXCEPT ![i] = <<>>]
                      ELSE
                        /\ Yield(i, RowSet(row, rk.src, Head(IndexGet(rindex, lkv))))
                        /\ gen' = [gen EXCEPT ![i] =
                             [g EXCEPT !.row = row, !.row_srcs = RowKeys(row),
                                       !.pend = Tail(IndexGet(rindex, lkv)),
                                       !.bind = rk.src]]
                        /\ emitted' = [emitted EXCEPT ![i] =
                             <<RowSet(row, rk.src, Head(IndexGet(rindex, lkv)))>>]
                 ELSE IF ~hasl /\ hasr THEN
                   \* case (None, rrow)
                   /\ cache' = CacheAfterLookup(cache, lk, rkv)
                   /\ IF IndexGetNone(lindex, rkv) THEN
                        /\ Pull
                        /\ gen' = [gen EXCEPT ![i] =
                             [g EXCEPT !.row = row, !.row_srcs = RowKeys(row), !.pend = <<>>]]
                        /\ emitted' = [emitted EXCEPT ![i] = <<>>]
                      ELSE
                        /\ Yield(i, RowSet(row, lk.src, Head(IndexGet(lindex, rkv))))
                        /\ gen' = [gen EXCEPT ![i] =
                             [g EXCEPT !.row = row, !.row_srcs = RowKeys(row),
                                       !.pend = Tail(IndexGet(lindex, rkv)),
                                       !.bind = lk.src]]
                        /\ emitted' = [emitted EXCEPT ![i] =
                             <<RowSet(row, lk.src, Head(IndexGet(lindex, rkv)))>>]
                 ELSE
                   \* case (lrow, rrow): if lk == rk: yield row
                   /\ cache' = cache
                   /\ gen' = [gen EXCEPT ![i] =
                        [g EXCEPT !.row = row, !.row_srcs = RowKeys(row), !.pend = <<>>]]
                   /\ IF lkv = rkv THEN
                        /\ Yield(i, row)
                        /\ emitted' = [emitted EXCEPT ![i] = <<row>>]
                      ELSE
                        /\ Pull
                        /\ emitted' = [emitted EXCEPT ![i] = <<>>]
  /\ UNCHANGED <<inputs, unit_state, out, lines, nrows, column_list, selected>>

\* The incoming rows are exhausted: the for loop of step i ends and so
\* does its generator.
StepStop(i) ==
  /\ ctl.at = i /\ ctl.msg = "stop"
  /\ gen' = [gen EXCEPT ![i].pc = "done"]
  /\ ctl' = [at |-> i + 1, msg |-> "stop"]
  /\ UNCHANGED <<inputs, unit_state, nyield, ntaken, cache, val, out, lines, err, emitted, first_srcs,
                 nrows, column_list, selected>>

\* The iterator of incoming rows handed to RelationJoiner.join: it gives
\* one more row (any partial row over the sources) or it is exhausted.
RowsNext ==
  /\ ctl.at = 0 /\ ctl.msg = "next"
  /\ \/ /\ nrows < MaxRows
        /\ \E row \in RowsOver(sources) :
             /\ ctl' = [at |-> 1, msg |-> "row"]
             /\ val' = row
             /\ nrows' = nrows + 1
     \/ /\ ctl' = [at |-> 1, msg |-> "stop"]
        /\ UNCHANGED <<val, nrows>>
  /\ UNCHANGED <<inputs, unit_state, nyield, ntaken, cache, gen, out, lines, err, emitted, first_srcs,
                 column_list, selected>>

\* list(...): the consumer keeps the row and asks for the next one.
ListRow ==
  /\ mode \in {"rel", "join"}
  /\ ctl.at = K + 1 /\ ctl.msg = "row"
  /\ out' = Append(out, val)
  /\ ctl' = [at |-> K, msg |-> "next"]
  /\ UNCHANGED <<inputs, unit_state, nyield, ntaken, cache, gen, val, lines, err, emitted, first_srcs,
                 nrows, column_list, selected>>

\* Runner.run: for items in joiner.join(joinkey): yield selector.select(items).
\* The line goes to the consumer of Runner.run and the generators wait.
RunnerRow ==
  /\ mode = "run"
  /\ ctl.at = K + 1 /\ ctl.msg = "row"
  /\ out' = Append(out, val)
  /\ column_list' = ColumnListOf(sources, val)
  /\ IF SelectorFails(target, sources, val)
       THEN /\ Raise("OutOfSourceRange")
            /\ selected' = [raised |-> TRUE, cols |-> <<>>]
            /\ lines' = lines
       ELSE /\ selected' = [raised |-> FALSE,
                            cols |-> SelectColumns(target, ColumnListOf(sources, val))]
            /\ lines' = Append(lines, SelectorSelect(target, sources, val))
            /\ ctl' = [at |-> K + 1, msg |-> "line"]
            /\ err' = err
  /\ UNCHANGED <<inputs, unit_state, nyield, ntaken, cache, gen, val, emitted, first_srcs, nrows>>

\* The consumer of Runner.run asks for the next line; one that stops
\* never does.
ConsumerNext ==
  /\ mode = "run"
  /\ ctl.at = K + 1 /\ ctl.msg = "line"
  /\ ctl' = [at |-> K, msg |-> "next"]
  /\ UNCHANGED <<inputs, unit_state, nyield, ntaken, cache, gen, val, out, lines,
                 err, emitted, first_srcs, nrows, column_list, selected>>

\* list(Joiner.join(join_key)) has returned; the join is made once more,
\* by a new Joiner over a new IndexCache, with a relation of the key
\* appended to the key.  stored keeps the rows of the first join.
JoinAgain ==
  /\ mode = "join"
  /\ ctl.msg = "end" /\ stored = <<>>
  /\ \E j \in 1..K :
       /\ join_key' = Append(join_key, join_key[j])
       /\ stored' = <<out>>
  /\ cache' = [l \in {} |-> None]
  /\ gen' = [i \in 1..(K + 1) |-> NewGen]
  /\ ctl' = [at |-> K + 2, msg |-> "start"]
  /\ val' = EmptyRow
  /\ out' = <<>>
  /\ emitted' = [i \in 1..(K + 1) |-> <<>>]
  /\ first_srcs' = [i \in 1..(K + 1) |-> [set |-> FALSE, keys |-> {}]]
  /\ nyield' = [i \in 1..(K + 1) |-> 0]
  /\ ntaken' = [i \in 1..(K + 1) |-> 0]
  /\ UNCHANGED <<mode, sources, seekable, grep, dbg, rows, target, lines, err, nrows,
                 column_list, selected, index, got, calls, text, parsed>>

\* What is done to a JoinItemList object: it is yielded or a binding is
\* set on it; row is its dict right after.
CopyOp(op, id, row) == [op |-> op, id |-> id, row |-> row]

CopyFrame ==
  UNCHANGED <<inputs, val, out, lines, err, emitted, first_srcs, nrows, nyield,
              ntaken, column_list, selected, index, got, text, parsed>>

\* The step takes its row.  Without rows (__full_join) it is the r made
\* for an item of lindex: r = JoinItemList(); r.set(...).  With rows it is
\* the incoming one, and the match on (row.get(lkey.src),
\* row.get(rkey.src)) says what to bind; a row bound on both sides is
\* yielded itself when its keys agree.
CopyTake ==
  /\ mode = "copy" /\ ctl.msg = "start"
  /\ GetIndex(1).err = NoErr
  /\ LET c == GetIndex(1).cache
         lk == Lkey(1)
         rk == Rkey(1)
         hasl == RowHas(val, lk.src)
         hasr == RowHas(val, rk.src)
     IN  /\ cache' = c
         /\ IF rows = None THEN
              \E j \in 1..Len(IndexItems(c[lk])) :
                LET litem == IndexItems(c[lk])[j]
                    r == HeapNew(stored)
                    h == HeapSet(r.heap, r.id, lk.src, litem)
                IN  /\ stored' = h
                    /\ gen' = <<[base |-> r.id, row |-> h[r.id],
                                 pend |-> IndexGet(c[rk], litem.key), bind |-> rk.src]>>
                    /\ calls' = calls
            ELSE IF ~hasl /\ ~hasr THEN
              /\ gen' = <<[base |-> 1, row |-> val, pend |-> <<>>, bind |-> 0]>>
              /\ UNCHANGED <<stored, calls>>
            ELSE IF hasl /\ ~hasr THEN
              /\ gen' = <<[base |-> 1, row |-> val,
                           pend |-> IndexGet(c[rk], RowKey(sources, c[lk], val[lk.src])),
                           bind |-> rk.src]>>
              /\ UNCHANGED <<stored, calls>>
            ELSE IF ~hasl /\ hasr THEN
              /\ gen' = <<[base |-> 1, row |-> val,
                           pend |-> IndexGet(c[lk], RowKey(sources, c[rk], val[rk.src])),
                           bind |-> lk.src]>>
              /\ UNCHANGED <<stored, calls>>
            ELSE
              /\ gen' = <<[base |-> 1, row |-> val, pend |-> <<>>, bind |-> 0]>>
              /\ calls' = IF RowKey(sources, c[lk], val[lk.src])
                               = RowKey(sources, c[rk], val[rk.src])
                            THEN <<CopyOp("yield", 1, stored[1])>> ELSE <<>>
              /\ UNCHANGED stored
  /\ ctl' = [at |-> 1, msg |-> "fan"]
  /\ CopyFrame

\* for ritem in ritems: p = r.copy(); p.set(JoinItem(src, ritem)); yield p.
CopyYield ==
  /\ mode = "copy" /\ ctl.msg = "fan"
  /\ gen[1].pend # <<>>
  /\ LET p == HeapCopy(stored, gen[1].base)
         h == HeapSet(p.heap, p.id, gen[1].bind, Head(gen[1].pend))
     IN  /\ stored' = h
         /\ calls' = Append(calls, CopyOp("yield", p.id, h[p.id]))
  /\ gen' = [gen EXCEPT ![1].pend = Tail(@)]
  /\ UNCHANGED <<cache, ctl>>
  /\ CopyFrame

\* Whoever holds a yielded row sets a binding on it: once, at any time
\* after its yield.
CopySet ==
  /\ mode = "copy" /\ ctl.msg = "fan"
  /\ \E n \in 1..Len(calls) : \E s \in 0..(Len(sources) - 1) :
       \E item \in ItemsOf(sources[s + 1]) :
         /\ stored' = HeapSet(stored, calls[n].id, s, item)
         /\ calls' = Append(calls, CopyOp("set", calls[n].id,
                                          RowSet(stored[calls[n].id], s, item)))
  /\ ctl' = [at |-> 1, msg |-> "set"]
  /\ UNCHANGED <<cache, gen>>
  /\ CopyFrame

\* The fan-out goes on after the binding was set.
CopyYieldAfterSet ==
  /\ mode = "copy" /\ ctl.msg = "set"
  /\ gen[1].pend # <<>>
  /\ LET p == HeapCopy(stored, gen[1].base)
         h == HeapSet(p.heap, p.id, gen[1].bind, Head(gen[1].pend))
     IN  /\ stored' = h
         /\ calls' = Append(calls, CopyOp("yield", p.id, h[p.id]))
  /\ gen' = [gen EXCEPT ![1].pend = Tail(@)]
  /\ UNCHANGED <<cache, ctl>>
  /\ CopyFrame

NextCopy == CopyTake \/ CopyYield \/ CopySet \/ CopyYieldAfterSet

\* What a step of Joiner.join(join_key, dbg=True) leaves alone.
DbgFrame ==
  UNCHANGED <<mode, sources, seekable, grep, target, cache, lines, err, nrows,
              column_list, selected, index, got, calls, text, parsed>>

\* The generator of one relation, about to be drained by list(result).
DbgStep ==
  /\ gen' = <<NewGen>>
  /\ ctl' = [at |-> 1, msg |-> "next"]
  /\ val' = EmptyRow
  /\ out' = <<>>
  /\ emitted' = <<<<>>>>
  /\ first_srcs' = <<[set |-> FALSE, keys |-> {}]>>
  /\ nyield' = <<0>>
  /\ ntaken' = <<0>>

\* list(Joiner.join(join_key)) has returned (stored keeps its rows); the
\* join is made once more with dbg=True, by a new Joiner over a new
\* IndexCache: result = self.__rel_joiner.join(key, None) for the first
\* relation, and r = list(result) starts.
DbgBegin ==
  /\ mode = "join"
  /\ ctl.msg = "end" /\ ~dbg.on /\ stored = <<>>
  /\ stored' = <<out>>
  /\ dbg' = [on |-> TRUE, key |-> join_key, i |-> 1, rows |-> <<>>, pos |-> 0]
  /\ join_key' = <<join_key[1]>>
  /\ rows' = None
  /\ cache' = [l \in {} |-> None]
  /\ DbgStep
  /\ UNCHANGED <<mode, sources, seekable, grep, target, lines, err, nrows,
                 column_list, selected, index, got, calls, text, parsed>>

\* next() on result = iter(r): the next materialized row of the relation
\* before, or the end of them.
DbgRowsNext ==
  /\ dbg.on
  /\ ctl.at = 0 /\ ctl.msg = "next"
  /\ IF dbg.pos < Len(dbg.rows)
       THEN /\ val' = dbg.rows[dbg.pos + 1]
            /\ ctl' = [at |-> 1, msg |-> "row"]
            /\ dbg' = [dbg EXCEPT !.pos = @ + 1]
       ELSE /\ ctl' = [at |-> 1, msg |-> "stop"]
            /\ UNCHANGED <<val, dbg>>
  /\ UNCHANGED <<join_key, rows, stored, gen, out, emitted, first_srcs, nyield, ntaken>>
  /\ DbgFrame

\* r = list(result) is complete; result = iter(r), and the next relation
\* is joined with it: its generator is drained in turn.
DbgNextRelation ==
  /\ dbg.on /\ dbg.i < Len(dbg.key)
  /\ ctl.at = 2 /\ ctl.msg = "stop"
  /\ dbg' = [dbg EXCEPT !.i = @ + 1, !.rows = out, !.pos = 0]
  /\ join_key' = <<dbg.key[dbg.i + 1]>>
  /\ rows' = "iter"
  /\ DbgStep
  /\ UNCHANGED stored
  /\ DbgFrame

\* The last relation is materialized: yield from result hands its rows to
\* the list of the caller.
DbgEnd ==
  /\ dbg.on /\ dbg.i = Len(dbg.key)
  /\ ctl.at = 2 /\ ctl.msg = "stop"
  /\ ctl' = [at |-> 2, msg |-> "end"]
  /\ UNCHANGED <<dbg, join_key, rows, stored, gen, val, out, emitted, first_srcs,
                 nyield, ntaken>>
  /\ DbgFrame

\* The last step's generator has ended: the iteration is over.
End ==
  /\ ctl.at = K + 1 /\ ctl.msg = "stop"
  /\ ctl' = [at |-> K + 1, msg |-> "end"]
  /\ UNCHANGED <<inputs, unit_state, nyield, ntaken, cache, gen, val, out, lines, err, emitted, first_srcs,
                 nrows, column_list, selected>>

\* select_columns(target, column_list) is called and returns or raises.
SelectApply ==
  /\ mode = "select"
  /\ ctl.msg = "start"
  /\ ctl' = [at |-> 0, msg |-> "end"]
  /\ IF SelectColumnsFails(target, column_list)
       THEN /\ selected' = [raised |-> TRUE, cols |-> <<>>]
            /\ err' = "OutOfSourceRange"
       ELSE /\ selected' = [raised |-> FALSE, cols |-> SelectColumns(target, column_list)]
            /\ err' = err
  /\ UNCHANGED <<inputs, unit_state, nyield, ntaken, cache, gen, val, out, lines, emitted, first_srcs,
                 nrows, column_list>>

\* What the calls on an Index leave alone.
IdxFrame ==
  UNCHANGED <<inputs, cache, gen, ctl, val, out, lines, err, emitted,
              first_srcs, nrows, nyield, ntaken, column_list, selected,
              text, parsed>>

\* Index.new(src, key): the source is scanned into a new Index.
IdxNew ==
  /\ mode = "index" /\ Len(calls) < MaxIdxOps
  /\ LET new == IndexNew(sources, seekable, 0, index.col)
         src == sources[1]
     IN  /\ new.ok
         /\ index' = new.index
         /\ stored' = [n \in 1..Len(src) |->
                         IndexItem(KeyOf(Rstrip(src[n]), index.col), OffsetOf(src, n))]
  /\ got' = [NoCall EXCEPT !.op = "new"]
  /\ calls' = Append(calls, "new")
  /\ IdxFrame

\* Index.add(item).
IdxAdd ==
  /\ mode = "index" /\ Len(calls) < MaxIdxOps
  /\ \E item \in IdxItemSet(sources[1]) :
       /\ index' = IndexAdd(index, item)
       /\ stored' = Append(stored, item)
       /\ got' = [NoCall EXCEPT !.op = "add", !.item = item]
  /\ calls' = Append(calls, "add")
  /\ IdxFrame

\* Index.delete(item).
IdxDelete ==
  /\ mode = "index" /\ Len(calls) < MaxIdxOps
  /\ \E item \in IdxItemSet(sources[1]) \cup {stored[n] : n \in 1..Len(stored)} :
       /\ index' = IndexDelete(index, item)
       /\ stored' = RemoveFirst(stored, item)
       /\ got' = [NoCall EXCEPT !.op = "delete", !.item = item]
  /\ calls' = Append(calls, "delete")
  /\ IdxFrame

\* Index.get(key): the items of the key or None; an empty bucket is pruned.
IdxGet ==
  /\ mode = "index" /\ Len(calls) < MaxIdxOps
  /\ \E k \in IdxVal :
       /\ got' = [NoCall EXCEPT !.op = "get", !.key = k,
                                !.none = IndexGetNone(index, k),
                                !.items = IndexGet(index, k)]
       /\ index' = IndexAfterGet(index, k)
  /\ calls' = Append(calls, "get")
  /\ UNCHANGED stored
  /\ IdxFrame

\* Index.read(item) of a stored item that points at a line of the source.
IdxRead ==
  /\ mode = "index" /\ Len(calls) < MaxIdxOps
  /\ \E n \in 1..Len(stored) :
       /\ stored[n].offset \in Offsets(sources[1])
       /\ got' = [NoCall EXCEPT !.op = "read", !.item = stored[n],
                                !.line = IndexRead(sources, index, stored[n])]
  /\ calls' = Append(calls, "read")
  /\ UNCHANGED <<index, stored>>
  /\ IdxFrame

NextIdx == IdxNew \/ IdxAdd \/ IdxDelete \/ IdxGet \/ IdxRead

\* Parser.parse_joinkey(text) is called and returns or raises.
ParseKeyApply ==
  /\ mode = "parse"
  /\ ctl.msg = "start"
  /\ ctl' = [at |-> 0, msg |-> "end"]
  /\ parsed' = ParseJoinkey(text)
  /\ err' = IF ParseJoinkey(text).raised THEN "ValidationException" ELSE err
  /\ UNCHANGED <<inputs, cache, gen, val, out, lines, emitted, first_srcs, nrows,
                 nyield, ntaken, column_list, selected, index, stored, got,
                 calls, text>>

NextParseKey == ParseKeyApply

\* IndexCache.get(loc, delimiter) is called and returns an Index or raises.
\* Each call is recorded: whether it read the source, its error, whether it
\* left the cache as it was, the Index it returned and which object that
\* is (the number of the call that made it; stored keeps these numbers).
CacheGetCall ==
  /\ mode = "cache" /\ Len(calls) < MaxCacheOps
  /\ \E loc \in CacheLocSet :
       LET r == CacheGet(sources, seekable, cache, loc)
           made == r.err = NoErr /\ CacheScans(sources, seekable, cache, loc)
           objs == IF made THEN [l \in DOMAIN stored \cup {loc} |->
                                   IF l = loc THEN Len(calls) + 1 ELSE stored[l]]
                   ELSE stored
       IN  /\ cache' = r.cache
           /\ err' = r.err
           /\ stored' = objs
           /\ calls' = Append(calls,
                [loc |-> loc, scanned |-> CacheScans(sources, seekable, cache, loc),
                 err |-> r.err, kept |-> r.cache = cache,
                 index |-> IF r.err = NoErr THEN r.cache[loc] ELSE EmptyIndex(0, 0),
                 obj |-> IF r.err = NoErr /\ loc \in DOMAIN objs THEN objs[loc] ELSE 0])
  /\ UNCHANGED <<inputs, gen, ctl, val, out, lines, emitted, first_srcs, nrows,
                 nyield, ntaken, column_list, selected, index, got, text, parsed>>

NextCache == CacheGetCall

\* Parser.parse_target(text) is called and returns or raises.
ParseTargetApply ==
  /\ mode = "target"
  /\ ctl.msg = "start"
  /\ ctl' = [at |-> 0, msg |-> "end"]
  /\ parsed' = ParseTarget(text)
  /\ err' = IF ParseTarget(text).raised THEN "ValidationException" ELSE err
  /\ UNCHANGED <<inputs, cache, gen, val, out, lines, emitted, first_srcs, nrows,
                 nyield, ntaken, column_list, selected, index, stored, got,
                 calls, text>>

NextParseTarget == ParseTargetApply

\* RelationJoiner.join called with incoming rows, drained into a list.
NextRel ==
  \/ Begin
  \/ \E i \in 1..K : StepNext(i)
  \/ \E i \in 1..K : StepRow(i)
  \/ \E i \in 1..K : StepStop(i)
  \/ RowsNext
  \/ ListRow
  \/ End

\* Joiner.join drained into a list.
NextJoin ==
  \/ Begin
  \/ \E i \in 1..K : StepNext(i)
  \/ \E i \in 1..K : StepRow(i)
  \/ \E i \in 1..K : StepStop(i)
  \/ ListRow
  \/ End

\* Joiner.join drained into a list, and once more with a longer key.
NextTwice ==
  \/ Begin
  \/ \E i \in 1..K : StepNext(i)
  \/ \E i \in 1..K : StepRow(i)
  \/ \E i \in 1..K : StepStop(i)
  \/ ListRow
  \/ End
  \/ JoinAgain

\* What setgrep leaves alone.
GrepFrame ==
  UNCHANGED <<mode, sources, seekable, dbg, join_key, rows, target, cache, gen,
              ctl, val, out, emitted, first_srcs, nrows, nyield, ntaken,
              column_list, selected, index, stored, got, calls, text, parsed>>

\* setgrep Runner.run starts: the seed is the set of the stripped target
\* lines, in whatever order the set visits them, and the Matcher is new.
GrepBegin ==
  /\ mode = "setgrep"
  /\ grep.at = "new"
  /\ \E order \in VisitOrders(SeedValues(grep.target)) :
       grep' = [grep EXCEPT !.at = "loop", !.values = order]
  /\ UNCHANGED <<lines, err>>
  /\ GrepFrame

\* One turn of the loop of setgrep Runner.run: the next line of the source
\* goes through matcher.match and is yielded if there is a Match.
GrepLine ==
  /\ mode = "setgrep"
  /\ grep.at = "loop"
  /\ grep.pos < Len(grep.source)
  /\ LET line == grep.source[grep.pos + 1]
         r == MatcherMatch(grep, line)
     IN  /\ grep' = [grep EXCEPT
                       !.at = IF r.err # NoErr THEN "raised" ELSE "loop",
                       !.pos = @ + 1,
                       !.values = r.values,
                       !.matches = r.matches,
                       !.hits = IF r.m.found THEN Append(@, r.m) ELSE @]
         /\ lines' = IF r.m.found THEN Append(lines, line) ELSE lines
         /\ err' = r.err
  /\ GrepFrame

\* The source is at its end: the generator of setgrep Runner.run returns.
GrepEnd ==
  /\ mode = "setgrep"
  /\ grep.at = "loop"
  /\ grep.pos = Len(grep.source)
  /\ grep' = [grep EXCEPT !.at = "end"]
  /\ UNCHANGED <<lines, err>>
  /\ GrepFrame

NextGrep == GrepBegin \/ GrepLine \/ GrepEnd

SpecGrep == InitGrep /\ [][NextGrep]_vars

\* Joiner.join drained into a list, without dbg and then with it.
NextDbg ==
  \/ ~dbg.on /\ Begin
  \/ \E i \in 1..K : StepNext(i)
  \/ \E i \in 1..K : StepRow(i)
  \/ \E i \in 1..K : StepStop(i)
  \/ ListRow
  \/ ~dbg.on /\ End
  \/ DbgBegin
  \/ DbgRowsNext
  \/ DbgNextRelation
  \/ DbgEnd

\* Runner.run drained to the end.
Next ==
  \/ Begin
  \/ \E i \in 1..K : StepNext(i)
  \/ \E i \in 1..K : StepRow(i)
  \/ \E i \in 1..K : StepStop(i)
  \/ RunnerRow
  \/ ConsumerNext
  \/ End

NextSel == SelectApply

SpecRel == InitRel /\ [][NextRel]_vars
SpecSel == InitSel /\ [][NextSel]_vars
SpecCat == InitCat /\ [][NextSel]_vars
SpecIdx == InitIdx /\ [][NextIdx]_vars
SpecOrd == InitOrd /\ [][NextJoin]_vars
SpecLazy == InitLazy /\ [][Next]_vars
SpecParseKey == InitParseKey /\ [][NextParseKey]_vars
SpecParseTarget == InitParseTarget /\ [][NextParseTarget]_vars
SpecCache == InitCache /\ [][NextCache]_vars
SpecFail == InitFail /\ [][Next]_vars
SpecTwice == InitOrd /\ [][NextTwice]_vars
SpecCopy == InitCopy /\ [][NextCopy]_vars
SpecDbg == InitOrd /\ [][NextDbg]_vars
SpecJoin == InitJoin /\ [][NextJoin]_vars
Spec == InitRun /\ [][Next]_vars

\* ================================================================== claims
\* The number (1..) of the line of src that starts at offset.
LineNo(src, offset) == CHOOSE n \in 1..Len(src) : OffsetOf(src, n) = offset

SetOf(seq) == {seq[k] : k \in 1..Len(seq)}

\* Columns a..b (1-based, inclusive, cut at the width) of source s of
\* column_list.
Cols(s, a, b) ==
  [k \in 1..(Min(b, Len(column_list[s])) - a + 1) |-> column_list[s][a + k - 1]]

\* select_columns has returned or raised.
Selected == mode = "select" /\ ctl.msg = "end"

\* Step i has finished with the incoming row it holds: it has asked for
\* the next one.
DoneWithRow(i) ==
  /\ ctl.at = i - 1 /\ ctl.msg = "next"
  /\ ~FullJoin(i)
  /\ first_srcs[i].set

\* The lines (1-based numbers) of source s (1-based) whose column c holds v.
LinesWith(s, c, v) == {n \in 1..Len(sources[s]) : sources[s][n][c] = v}

\* The value in column c of the line that row binds for source s (1-based).
BoundValue(row, s, c) == sources[s][LineNo(sources[s], row[s - 1].offset)][c]

\* ---- C1 ----
\* C1: a full join (RelationJoiner.join with no incoming rows) emits one
\* row for every pair of a left line and a right line whose values in the
\* relation's columns are equal, and nothing else: m*n rows for a key of m
\* left and n right lines, each row binding the relation's two sources.
C1_Matches ==
  {p \in (1..Len(sources[join_key[1].left.src])) \X (1..Len(sources[join_key[1].right.src])) :
     sources[join_key[1].left.src][p[1]][join_key[1].left.col]
       = sources[join_key[1].right.src][p[2]][join_key[1].right.col]}

C1_PairOf(row) ==
  <<LineNo(sources[join_key[1].left.src], row[join_key[1].left.src - 1].offset),
    LineNo(sources[join_key[1].right.src], row[join_key[1].right.src - 1].offset)>>

C1_FullJoinIsCrossProduct ==
  (mode = "join" /\ K = 1 /\ ctl.msg = "end") =>
    /\ \A k \in 1..Len(out) :
         RowKeys(out[k]) = {join_key[1].left.src - 1, join_key[1].right.src - 1}
    /\ {C1_PairOf(out[k]) : k \in 1..Len(out)} = C1_Matches
    /\ Len(out) = Cardinality(C1_Matches)

\* Witness: a full join has ended with the four rows of a key carried by
\* two left and two right lines.
C1_Witness ==
  /\ mode = "join" /\ K = 1 /\ ctl.msg = "end"
  /\ Len(out) = 4
  /\ Cardinality({out[k][join_key[1].left.src - 1].key : k \in 1..Len(out)}) = 1

\* ---- C2 ----
\* C2: in an incremental step, for an incoming row with exactly one of the
\* relation's sources bound, the step emits one row per line of the other
\* source whose value in the relation's column equals the value the bound
\* line has in the relation's column (read from the line, whatever key the
\* bound item carries); each is the incoming row plus that binding; no
\* match, no row.
C2_Expected(row, sb, cb, so, co) ==
  {RowSet(row, so - 1,
          IndexItem(BoundValue(row, sb, cb), OffsetOf(sources[so], n))) :
     n \in LinesWith(so, co, BoundValue(row, sb, cb))}

C2_OneSideExtends ==
  \A i \in 1..K :
    LET rel == join_key[i]
        row == gen[i].row
        hasl == RowHas(row, rel.left.src - 1)
        hasr == RowHas(row, rel.right.src - 1)
    IN  (DoneWithRow(i) /\ hasl # hasr) =>
          LET exp == IF hasl
                       THEN C2_Expected(row, rel.left.src, rel.left.col,
                                        rel.right.src, rel.right.col)
                       ELSE C2_Expected(row, rel.right.src, rel.right.col,
                                        rel.left.src, rel.left.col)
          IN  /\ SetOf(emitted[i]) = exp
              /\ Len(emitted[i]) = Cardinality(exp)

\* Witness: a row bound on the left only, whose item carries a key other
\* than the value of the relation's column, has been extended to two rows.
C2_Witness ==
  /\ mode = "rel" /\ DoneWithRow(1)
  /\ RowHas(gen[1].row, join_key[1].left.src - 1)
  /\ ~RowHas(gen[1].row, join_key[1].right.src - 1)
  /\ gen[1].row[join_key[1].left.src - 1].key
       # BoundValue(gen[1].row, join_key[1].left.src, join_key[1].left.col)
  /\ Len(emitted[1]) = 2

\* ---- C3 ----
\* C3: in an incremental step an incoming row with neither of the
\* relation's sources bound is emitted unchanged.
C3_UnrelatedRowPassesThrough ==
  \A i \in 1..K :
    (/\ DoneWithRow(i)
     /\ ~RowHas(gen[i].row, join_key[i].left.src - 1)
     /\ ~RowHas(gen[i].row, join_key[i].right.src - 1))
    => emitted[i] = <<gen[i].row>>

\* ---- C4 ----
\* C4: a step fails with a consistency error as soon as it receives a row
\* whose bound sources differ from those of the first row it received; it
\* never takes such a row in.
C4_ShapeMismatchRaises ==
  \A i \in 1..K :
    first_srcs[i].set =>
      \/ RowKeys(gen[i].row) = first_srcs[i].keys
      \/ err = "InconsistentColumns"

\* ---- C5 ----
\* C5: in an incremental step an incoming row with both of the relation's
\* sources bound is emitted once, unchanged, if the two bound lines hold
\* equal values in the relation's columns, and is dropped otherwise.
C5_BothBoundFilters ==
  \A i \in 1..K :
    LET rel == join_key[i]
        row == gen[i].row
    IN  (/\ DoneWithRow(i)
         /\ RowHas(row, rel.left.src - 1)
         /\ RowHas(row, rel.right.src - 1))
        => emitted[i] =
             IF BoundValue(row, rel.left.src, rel.left.col)
                  = BoundValue(row, rel.right.src, rel.right.col)
               THEN <<row>>
               ELSE <<>>

\* Witness: a step has passed a row with both sources bound to lines that
\* are not the first of their sources.
C5_Witness ==
  /\ mode = "rel" /\ DoneWithRow(1)
  /\ RowHas(gen[1].row, join_key[1].left.src - 1)
  /\ RowHas(gen[1].row, join_key[1].right.src - 1)
  /\ gen[1].row[join_key[1].left.src - 1].offset > 0
  /\ emitted[1] = <<gen[1].row>>

\* ---- C6 ----
\* The sources (1-based) a join key names.
NamedSrcs(key) ==
  UNION {{key[i].left.src, key[i].right.src} : i \in 1..Len(key)}

\* Every relation after the first names a source bound by an earlier one.
Connected(key) ==
  \A i \in 2..Len(key) :
    {key[i].left.src, key[i].right.src} \cap NamedSrcs(SubSeq(key, 1, i - 1)) # {}

\* The combinations of lines, one per named source, that satisfy every
\* relation of the key.
C6_Satisfying ==
  {a \in [NamedSrcs(join_key) -> 1..MaxLines] :
     /\ \A s \in NamedSrcs(join_key) : a[s] <= Len(sources[s])
     /\ \A i \in 1..K :
          sources[join_key[i].left.src][a[join_key[i].left.src]][join_key[i].left.col]
            = sources[join_key[i].right.src][a[join_key[i].right.src]][join_key[i].right.col]}

C6_LinesOf(row) ==
  [s \in NamedSrcs(join_key) |-> LineNo(sources[s], row[s - 1].offset)]

\* C6: for a join key in which every relation after the first names a
\* source bound earlier, Joiner.join emits exactly once each combination
\* of lines, one per named source, that satisfies every relation, and no
\* other row.
C6_JoinerEmitsSatisfying ==
  (mode = "join" /\ ctl.msg = "end" /\ Connected(join_key)) =>
    /\ \A k \in 1..Len(out) : RowKeys(out[k]) = {s - 1 : s \in NamedSrcs(join_key)}
    /\ {C6_LinesOf(out[k]) : k \in 1..Len(out)} = C6_Satisfying
    /\ Len(out) = Cardinality(C6_Satisfying)

\* Witness: a key of two relations over three sources, on different
\* columns of the shared source, has ended with two rows.
C6_Witness ==
  /\ mode = "join" /\ ctl.msg = "end" /\ K = 2
  /\ Cardinality(NamedSrcs(join_key)) = 3
  /\ Connected(join_key)
  /\ Len(out) = 2
  /\ \E s \in NamedSrcs(join_key) :
       /\ s \in {join_key[1].left.src, join_key[1].right.src}
       /\ s \in {join_key[2].left.src, join_key[2].right.src}
       /\ {l.col : l \in {x \in {join_key[1].left, join_key[1].right,
                                  join_key[2].left, join_key[2].right} : x.src = s}}
            = ColNums

\* ---- C7 ----
\* C7: for a row handed to Selector.select and a target Single(s, c) whose
\* source s is bound in the row, the projected value is column c of the
\* line bound for s, whichever other sources are bound.
C7_SingleProjectsBoundLine ==
  (/\ mode = "run"
   /\ Len(out) > 0
   /\ target[1].kind = "Single"
   /\ RowHas(out[Len(out)], target[1].left.src - 1))
  => /\ ~selected.raised
     /\ selected.cols =
          <<BoundValue(out[Len(out)], target[1].left.src, target[1].left.col)>>

\* ---- C8 ----
\* C8 as stated: Left(s, c) selects the columns of source s from c on and
\* then all columns of every later source of column_list.
C8_LeftTakesLaterSources ==
  (Selected /\ target[1].kind = "Left" /\ ~selected.raised) =>
    selected.cols =
      Cols(target[1].left.src, target[1].left.col, MaxSize)
      \o Flatten(SubSeq(column_list, target[1].left.src + 1, Len(column_list)))

\* C8 amended: Left(s, c), for a source s of column_list, selects the
\* columns of source s from column c to its last one and nothing of any
\* other source.
C8_LeftTakesOwnTail ==
  (Selected /\ target[1].kind = "Left" /\ target[1].left.src <= Len(column_list)) =>
    /\ ~selected.raised
    /\ selected.cols = Cols(target[1].left.src, target[1].left.col, MaxSize)

\* Witness: Left has selected two columns of a source that is not the last.
C8_Witness ==
  /\ Selected /\ target[1].kind = "Left"
  /\ target[1].left.src < Len(column_list)
  /\ Len(selected.cols) = 2

\* ---- C9 ----
\* C9: an Interval over more than two sources selects the first source's
\* columns from left.col on, every column of each source in between, once,
\* and the last source's columns up to right.col, wherever it starts.
C9_IntervalOverManySources ==
  (/\ Selected /\ target[1].kind = "Interval"
   /\ target[1].right.src - target[1].left.src >= 2
   /\ target[1].right.src <= Len(column_list))
  => /\ ~selected.raised
     /\ selected.cols =
          Cols(target[1].left.src, target[1].left.col, MaxSize)
          \o Flatten(SubSeq(column_list, target[1].left.src + 1, target[1].right.src - 1))
          \o Cols(target[1].right.src, 1, target[1].right.col)

\* ---- C10 ----
\* C10: an Interval(left, right) with right.src = left.src + 1, both
\* sources in column_list, selects the columns of source left.src from
\* left.col to its last one and then the columns of source right.src from
\* its first to right.col inclusive.
C10_IntervalOverTwoSources ==
  (/\ Selected /\ target[1].kind = "Interval"
   /\ target[1].right.src = target[1].left.src + 1
   /\ target[1].right.src <= Len(column_list))
  => /\ ~selected.raised
     /\ selected.cols =
          Cols(target[1].left.src, target[1].left.col, MaxSize)
          \o Cols(target[1].right.src, 1, target[1].right.col)

\* Witness: such an Interval, not starting at the first source, has cut
\* both the first source's head and the second source's tail.
C10_Witness ==
  /\ Selected /\ target[1].kind = "Interval"
  /\ target[1].left.src = 2 /\ target[1].right.src = 3
  /\ target[1].left.col = 2 /\ target[1].right.col = 1
  /\ Len(column_list) >= 3
  /\ Len(column_list[2]) = 2 /\ Len(column_list[3]) = 2
  /\ selected.cols = <<Cell(2, 2), Cell(3, 1)>>

\* ---- C11 ----
\* C11: a range confined to one source s of column_list selects the
\* contiguous slice of that source, cut at its width, and nothing of any
\* other source: Single(s, c) column c, Right(s, c) columns 1..c, and
\* Interval((s, a), (s, b)) with a <= b columns a..b.
C11_OneSourceSlice ==
  (Selected /\ target[1].left.src <= Len(column_list)) =>
    /\ target[1].kind = "Single" =>
         /\ ~selected.raised
         /\ selected.cols = Cols(target[1].left.src, target[1].left.col, target[1].left.col)
    /\ target[1].kind = "Right" =>
         /\ ~selected.raised
         /\ selected.cols = Cols(target[1].left.src, 1, target[1].left.col)
    /\ (/\ target[1].kind = "Interval"
        /\ target[1].right.src = target[1].left.src
        /\ target[1].left.col <= target[1].right.col) =>
         /\ ~selected.raised
         /\ selected.cols = Cols(target[1].left.src, target[1].left.col, target[1].right.col)

\* Witness: an Interval within the second source, reaching beyond its
\* width, has selected its last column only.
C11_Witness ==
  /\ Selected /\ target[1].kind = "Interval"
  /\ target[1].left = Location(2, 2) /\ target[1].right = Location(2, 3)
  /\ Len(column_list) >= 3
  /\ Len(column_list[2]) = 2
  /\ selected.cols = <<Cell(2, 2)>>

\* ---- C12 ----
\* C12: for a target of two ranges each of which select_columns accepts on
\* its own, the selection of [R1, R2] is the selection of [R1] followed by
\* the selection of [R2]; repeated and overlapping ranges repeat columns.
C12_TargetConcatenates ==
  (/\ Selected /\ Len(target) = 2
   /\ ~SelectColumnsFails(<<target[1]>>, column_list)
   /\ ~SelectColumnsFails(<<target[2]>>, column_list))
  => /\ ~selected.raised
     /\ selected.cols = SelectColumns(<<target[1]>>, column_list)
                        \o SelectColumns(<<target[2]>>, column_list)

\* Witness: two overlapping ranges, the later source first, have selected
\* a column twice.
C12_Witness ==
  /\ Selected /\ Len(target) = 2
  /\ target[1] = Right(Location(2, 2))
  /\ target[2] = Interval(Location(1, 2), Location(2, 1))
  /\ selected.cols = <<Cell(2, 1), Cell(2, 2), Cell(1, 2), Cell(2, 1)>>

\* ---- C13 ----
\* The source numbers (1-based) a range names: the zero-based boundaries
\* (l, r) of the range have l.src + 1 and r.src among them.
NamedBy(rng) ==
  IF rng.kind = "Interval" THEN {rng.left.src, rng.right.src} ELSE {rng.left.src}

\* C13: select_columns raises the range error, returning no columns,
\* exactly when some range of the target names a source that is not one of
\* column_list; otherwise it returns.
C13_RangeErrorExactly ==
  Selected =>
    /\ selected.raised <=>
         \E t \in 1..Len(target) : \E n \in NamedBy(target[t]) :
           ~(1 <= n /\ n <= Len(column_list))
    /\ selected.raised => selected.cols = <<>> /\ err = "OutOfSourceRange"
    /\ ~selected.raised => err = NoErr

\* Witness: the second range alone is out of range (its right source is
\* one past the last) and the call has raised.
C13_Witness ==
  /\ Selected /\ Len(target) = 2
  /\ Len(column_list) = 2
  /\ target[1] = Single(Location(1, 1))
  /\ target[2] = Interval(Location(2, 1), Location(3, 1))
  /\ selected.raised

\* ---- C14 ----
\* C14: a run drained to its end whose target names a source number
\* greater than the number of sources supplied fails with the range
\* error, whatever the sources hold and the join produces.
C14_ForeignSourceFails ==
  (/\ mode = "run"
   /\ ctl.msg \in {"end", "raised"}
   /\ \E t \in 1..Len(target) : \E n \in NamedBy(target[t]) : n > Len(sources))
  => err = "OutOfSourceRange"

\* ---- C15 ----
\* C15: reading back a line of the source by an item that holds the offset
\* of its start, through Index.read or through the Selector's read at that
\* offset, returns the text of the line without its newline, whatever the
\* line holds, white space and empty fields at its end included.
C15_ReadReturnsLine ==
  (mode = "index" /\ got.op = "read") =>
    /\ got.line = sources[1][LineNo(sources[1], got.item.offset)]
    /\ SelectorRead(sources, 0, got.item.offset)
         = sources[1][LineNo(sources[1], got.item.offset)]

\* ---- C16 ----
\* The stored items of key k, in the order they were added.
StoredOf(k) ==
  LET HasKey(x) == x.key = k IN SelectSeq(stored, HasKey)

\* C16: after any calls of add, delete and get (and new), Index.get(k)
\* returns None exactly when no item of key k is stored, and otherwise the
\* items of key k that are stored.
C16_GetAbsentIffNoneStored ==
  (mode = "index" /\ got.op = "get") =>
    /\ got.none <=> StoredOf(got.key) = <<>>
    /\ got.items = StoredOf(got.key)

\* Witness: the one item added has been deleted and get returns None.
C16_Witness ==
  /\ mode = "index"
  /\ calls = <<"add", "delete", "get">>
  /\ stored = <<>>
  /\ got.none

\* ---- C17 ----
\* The item Index.new is to record for line n of the source: the key of
\* the line's text (newline aside) and the offset of its start.
C17_ItemOf(n) ==
  IndexItem(KeyOf(sources[1][n], index.col), OffsetOf(sources[1], n))

\* C17: Index.new records one item per line of the source, with the
\* line's key and the offset of its start; Index.get(k) then returns the
\* items of the lines of key k, duplicates kept, in the order of the lines.
C17_NewRecordsEveryLine ==
  (mode = "index" /\ got.op = "new") =>
    /\ Len(IndexItems(index)) = Len(sources[1])
    /\ \A k \in IdxVal :
         LET HasKey(x) == x.key = k
         IN  IndexGet(index, k)
               = SelectSeq([n \in 1..Len(sources[1]) |-> C17_ItemOf(n)], HasKey)

\* ---- C18 ----
\* The first line of the first relation's left source that holds, in the
\* relation's column, the value line n holds there.
FirstWithKeyOf(n) ==
  LET src == sources[join_key[1].left.src]
      c == join_key[1].left.col
  IN  CHOOSE m \in 1..n :
        /\ src[m][c] = src[n][c]
        /\ \A x \in 1..(m - 1) : src[x][c] # src[n][c]

\* Left line n1 comes before left line n2 in the insertion order of the
\* left Index: keys as first seen, the lines of one key in line order.
LeftBefore(n1, n2) ==
  \/ FirstWithKeyOf(n1) < FirstWithKeyOf(n2)
  \/ FirstWithKeyOf(n1) = FirstWithKeyOf(n2) /\ n1 < n2

\* The pair p of a left and a right line comes before the pair q.
PairBefore(p, q) ==
  \/ LeftBefore(p[1], q[1])
  \/ p[1] = q[1] /\ p[2] < q[2]

\* C18: a full-join step emits its rows in the insertion order of the
\* left Index and, for one left item, in the line order of the matched
\* right items; an incremental step emits every row derived from an
\* incoming row before any row derived from a later incoming row.
C18_OutputOrder ==
  mode = "join" =>
    \A j, k \in 1..Len(out) :
      j < k =>
        IF K = 1
          THEN PairBefore(C1_PairOf(out[j]), C1_PairOf(out[k]))
          ELSE \/ C1_PairOf(out[j]) = C1_PairOf(out[k])
               \/ PairBefore(C1_PairOf(out[j]), C1_PairOf(out[k]))

\* Witness: the full join has emitted the third left line, which repeats
\* the first line's key, before the second.
C18_Witness ==
  /\ mode = "join" /\ K = 1 /\ ctl.msg = "end"
  /\ Len(out) >= 3
  /\ C1_PairOf(out[1])[1] = 1
  /\ C1_PairOf(out[2])[1] = 3
  /\ C1_PairOf(out[Len(out)])[1] = 2

\* Witness: an incremental step has emitted two rows derived from its
\* first incoming row and then a row derived from a later one.
C18_WitnessIncremental ==
  /\ mode = "join" /\ K = 2 /\ ctl.msg = "end"
  /\ Len(out) >= 3
  /\ C1_PairOf(out[1]) = C1_PairOf(out[2])
  /\ C1_PairOf(out[2]) # C1_PairOf(out[3])

\* ---- C19 ----
\* A row yielded to frame i that the frame has not taken in yet.
InFlight(i) == IF ctl.at = i /\ ctl.msg = "row" THEN 1 ELSE 0

\* C19: Runner.run is lazy.  While no error has ended the run, the last
\* step has yielded as many rows as the consumer has received lines (and
\* one more only while Runner.run is turning it into the next line), and
\* every earlier step has yielded as many rows as the step after it has
\* taken in (and one more only while it is handed over): no rows are
\* computed ahead or kept in a list; a consumer that holds k lines and
\* asks for no more leaves the steps at k rows.
C19_RunIsLazy ==
  (mode = "run" /\ err = NoErr) =>
    /\ K > 0 => nyield[K] = Len(lines) + InFlight(K + 1)
    /\ \A i \in 1..(K - 1) : nyield[i] = ntaken[i + 1] + InFlight(i + 1)
    /\ ctl.msg = "line" => ctl.at = K + 1 /\ nyield[K] = Len(lines)

\* Witness: the consumer holds the first line of a run of two relations
\* whose first step has more rows to give.
C19_Witness ==
  /\ mode = "run" /\ K = 2
  /\ ctl.msg = "line"
  /\ Len(lines) = 1
  /\ nyield[1] = 1 /\ nyield[2] = 1
  /\ gen[1].pend # <<>>
  /\ gen[2].pend # <<>>

\* ---- C20 ----
\* The piece of the text from i to j stands between commas or the ends.
IsPiece(txt, i, j) ==
  /\ i = 1 \/ txt[i - 1] = ","
  /\ j = Len(txt) \/ txt[j + 1] = ","

\* Some relation of the text has the same source number on both sides.
HasSameSrcRelation(txt) ==
  \E i \in 1..Len(txt) : \E j \in i..Len(txt) :
    /\ IsPiece(txt, i, j)
    /\ \E a \in SrcTexts, b \in SrcTexts, c \in ColTexts, d \in ColTexts :
         /\ IntOf(a) = IntOf(b)
         /\ SubSeq(txt, i, j) = RelText(a, c, b, d)

\* C20: Parser.parse_joinkey fails with a validation error and returns no
\* JoinKey for every text in which some relation has the same source
\* number on both sides, whatever the other relations are.
C20_SameSourceRejected ==
  (mode = "parse" /\ ctl.msg = "end" /\ HasSameSrcRelation(text)) =>
    /\ parsed.raised
    /\ parsed.value = <<>>
    /\ err = "ValidationException"

\* Witness: the second relation alone has the same source on both sides,
\* written in two ways, and the text has been refused.
C20_Witness ==
  /\ mode = "parse" /\ ctl.msg = "end"
  /\ text = RelText(<<"1">>, <<"1">>, <<"2">>, <<"1">>) \o <<",">>
            \o RelText(<<"0", "1">>, <<"1">>, <<"1">>, <<"1">>)
  /\ parsed.raised

\* ---- C21 ----
\* The written form of a number and of a location.
RECURSIVE Written(_)
Written(n) ==
  IF n < 10 THEN <<Digits[n + 1]>> ELSE Written(n \div 10) \o <<Digits[(n % 10) + 1]>>
WrittenLoc(loc) == Written(loc.src) \o <<".">> \o Written(loc.col)

\* The pieces of a text between its commas.
RECURSIVE PiecesOf(_, _)
PiecesOf(txt, piece) ==
  IF txt = <<>> THEN <<piece>>
  ELSE IF Head(txt) = "," THEN <<piece>> \o PiecesOf(Tail(txt), <<>>)
  ELSE PiecesOf(Tail(txt), Append(piece, Head(txt)))

\* Locations with source and column numbers of 1 and more.
C21_Locs == {Location(s, c) : s \in {1, 2, 12}, c \in {1, 2, 12}}

\* The range read at place k of the target text is rng.
C21_Reads(k, rng) ==
  /\ ~parsed.raised
  /\ Len(parsed.value) = Len(PiecesOf(text, <<>>))
  /\ parsed.value[k] = rng

\* C21: Parser.parse_target maps each range text to its variant, in the
\* written order: "s.c" to Single, "s.c-" to Left, "-s.c" to Right and
\* "s1.c1-s2.c2" to Interval, for source and column numbers of 1 and more.
C21_TargetVariants ==
  (mode = "target" /\ ctl.msg = "end") =>
    LET ps == PiecesOf(text, <<>>)
        ranges == \A k \in 1..Len(ps) :
                    \E l \in C21_Locs, r \in C21_Locs :
                      ps[k] \in {WrittenLoc(l), WrittenLoc(l) \o <<"-">>,
                                 <<"-">> \o WrittenLoc(l),
                                 WrittenLoc(l) \o <<"-">> \o WrittenLoc(r)}
    IN  ranges =>
          \A k \in 1..Len(ps) : \A l \in C21_Locs :
            /\ ps[k] = WrittenLoc(l) => C21_Reads(k, Single(l))
            /\ ps[k] = WrittenLoc(l) \o <<"-">> => C21_Reads(k, Left(l))
            /\ ps[k] = <<"-">> \o WrittenLoc(l) => C21_Reads(k, Right(l))
            /\ \A r \in C21_Locs :
                 ps[k] = WrittenLoc(l) \o <<"-">> \o WrittenLoc(r)
                   => C21_Reads(k, Interval(l, r))

\* Witness: a Left, a Right and an Interval written in this order have
\* been read.
C21_Witness ==
  /\ mode = "target" /\ ctl.msg = "end"
  /\ text = <<"2", ".", "1", "2", "-", ",", "-", "1", ".", "1", ",",
              "1", ".", "1", "-", "2", ".", "1", "2">>
  /\ parsed = [raised |-> FALSE,
               value |-> <<Left(Location(2, 12)), Right(Location(1, 1)),
                           Interval(Location(1, 1), Location(2, 12))>>]

\* ---- C22 ----
\* The calls of get that indexed loc: they read its source and returned.
C22_Indexings(loc) ==
  {n \in 1..Len(calls) :
     calls[n].loc = loc /\ calls[n].scanned /\ calls[n].err = NoErr}

\* C22: over any sequence of IndexCache.get calls, each location is
\* indexed by at most one scan of its source; every get after that returns
\* the same Index object, with the same content, without reading the
\* source again; and a get that raises leaves the cache as it was.
C22_IndexedOnce ==
  mode = "cache" =>
    /\ \A loc \in CacheLocSet : Cardinality(C22_Indexings(loc)) <= 1
    /\ \A n \in 1..Len(calls) : \A m \in (n + 1)..Len(calls) :
         (calls[n].loc = calls[m].loc /\ calls[n].err = NoErr) =>
           /\ ~calls[m].scanned
           /\ calls[m].err = NoErr
           /\ calls[m].obj = calls[n].obj
           /\ calls[m].index = calls[n].index
    /\ \A n \in 1..Len(calls) : calls[n].err # NoErr => calls[n].kept

\* Witness: a location is indexed, a get of another location raises after
\* reading a line, and the first location is asked for again.
C22_Witness ==
  /\ mode = "cache" /\ Len(calls) = 3
  /\ calls[1].err = NoErr /\ calls[1].scanned /\ calls[1].index.buckets # <<>>
  /\ calls[2].err = "MissingIndexNewKey" /\ calls[2].loc # calls[1].loc
  /\ Len(sources[calls[2].loc.src + 1]) = 2
  /\ calls[3].loc = calls[1].loc /\ ~calls[3].scanned

\* ---- C23 ----
\* The location (0-based, as IndexCache sees it) cannot be indexed: its
\* source does not exist or is not seekable, or some line of its source has
\* fewer fields than its column.
C23_Unindexable(loc) ==
  \/ loc.src >= Len(sources)
  \/ ~seekable[loc.src + 1]
  \/ \E n \in 1..Len(sources[loc.src + 1]) : Len(sources[loc.src + 1][n]) < loc.col + 1

C23_SomeUnindexable ==
  \E i \in 1..K : C23_Unindexable(Lkey(i)) \/ C23_Unindexable(Rkey(i))

\* C23: if some location of the join key cannot be indexed, wherever it
\* stands in the key, Runner.run yields no line and does not end normally:
\* it raises the error of the missing index.
C23_UnindexableRaisesFirst ==
  (mode = "run" /\ C23_SomeUnindexable) =>
    /\ lines = <<>> /\ out = <<>>
    /\ ctl.msg # "end" /\ ctl.msg # "line"
    /\ ctl.msg = "raised" =>
         err \in {"MissingIndexOutOfRange", "MissingIndexNotSeekable", "MissingIndexNewKey"}

\* Witness: the first relation joins two good columns whose lines match,
\* the last line of a source is too short for the right location of the
\* second relation, and the run has raised.
C23_Witness ==
  /\ mode = "run" /\ K = 2
  /\ ~C23_Unindexable(Lkey(1)) /\ ~C23_Unindexable(Rkey(1))
  /\ ~C23_Unindexable(Lkey(2))
  /\ Rkey(2).src < Len(sources) /\ seekable[Rkey(2).src + 1]
  /\ Len(sources[Rkey(2).src + 1]) = 2
  /\ Len(sources[Rkey(2).src + 1][1]) = 2
  /\ C23_Unindexable(Rkey(2))
  /\ ctl.msg = "raised" /\ err = "MissingIndexNewKey"
  /\ lines = <<>>

\* ---- C24 ----
\* C24: appending to a join key a relation that already occurs in it does
\* not change the sequence of rows Joiner.join emits: the join with the
\* longer key ends with the rows of the join with the key itself, in the
\* same order.
C24_RepeatedRelationKeeps ==
  (mode = "join" /\ stored # <<>> /\ ctl.msg \in {"end", "raised"}) =>
    /\ ctl.msg = "end"
    /\ out = stored[1]

\* Witness: a key of two relations has joined three sources into two rows
\* or more, and the join with its first relation appended has ended.
C24_Witness ==
  /\ mode = "join" /\ stored # <<>> /\ ctl.msg = "end"
  /\ K = 3 /\ join_key[3] = join_key[1]
  /\ Len(stored[1]) >= 2
  /\ \A n \in 1..Len(out) : RowKeys(out[n]) = {0, 1, 2}

\* ---- C25 ----
\* The location a comes before the location b: an earlier source, or the
\* same source and an earlier column.
C25_Precedes(a, b) == a.src < b.src \/ (a.src = b.src /\ a.col < b.col)

\* C25: an Interval whose right location comes before its left location
\* selects no columns and raises no error when both of its sources are in
\* column_list.
C25_BackwardIntervalEmpty ==
  (/\ Selected /\ target[1].kind = "Interval"
   /\ C25_Precedes(target[1].right, target[1].left)
   /\ target[1].left.src <= Len(column_list)
   /\ target[1].right.src <= Len(column_list))
  => /\ ~selected.raised
     /\ selected.cols = <<>>

\* Witness: an Interval from the second source back to a column of the
\* first one, both two columns wide, has selected nothing.
C25_Witness ==
  /\ Selected /\ target[1].kind = "Interval"
  /\ target[1].left = Location(2, 1) /\ target[1].right = Location(1, 2)
  /\ Len(column_list) = 2
  /\ Len(column_list[1]) = 2 /\ Len(column_list[2]) = 2
  /\ ~selected.raised /\ selected.cols = <<>>

\* ---- C26 ----
\* The yields so far, and the object a binding was set on afterwards (0:
\* none yet).
C26_Yields == {n \in 1..Len(calls) : calls[n].op = "yield"}
C26_SetOn ==
  IF \E n \in 1..Len(calls) : calls[n].op = "set"
    THEN calls[CHOOSE n \in 1..Len(calls) : calls[n].op = "set"].id
    ELSE 0

\* The step has fanned its row out: the row was bound on one side of the
\* relation only, or it is the r of __full_join.
C26_FannedOut ==
  rows = None \/ (RowHas(val, Lkey(1).src) # RowHas(val, Rkey(1).src))

\* C26: a relation step never changes its incoming row; every row it
\* yields agrees with the incoming row on each source that one had bound;
\* the rows fanned out from one row are distinct containers made by copy,
\* none of them the row itself; and setting a binding on one of them
\* changes neither the row they were copied from nor its siblings.
C26_StepCopiesRows ==
  (mode = "copy" /\ ctl.msg # "start") =>
    /\ C26_SetOn # gen[1].base => stored[gen[1].base] = gen[1].row
    /\ rows = "iter" => gen[1].row = val /\ gen[1].base = 1
    /\ \A n \in C26_Yields : \A s \in RowKeys(gen[1].row) :
         RowHas(calls[n].row, s) /\ calls[n].row[s] = gen[1].row[s]
    /\ \A n \in C26_Yields :
         calls[n].id # C26_SetOn => stored[calls[n].id] = calls[n].row
    /\ C26_FannedOut =>
         /\ \A n \in C26_Yields : calls[n].id # gen[1].base
         /\ \A n \in C26_Yields : \A m \in C26_Yields : n # m => calls[n].id # calls[m].id
         /\ stored[gen[1].base] = gen[1].row

\* Witness: an incoming row bound on one side was fanned out into two
\* rows, a binding of the incoming row was then set anew on the first of
\* them, and the second one was yielded after that.
C26_Witness ==
  /\ mode = "copy" /\ rows = "iter" /\ ctl.msg = "set"
  /\ Len(calls) = 3
  /\ calls[1].op = "yield" /\ calls[2].op = "set" /\ calls[3].op = "yield"
  /\ calls[2].id = calls[1].id
  /\ \E s \in RowKeys(val) : calls[2].row[s] # val[s]
  /\ stored[1] = val

\* ---- C27 ----
\* C27: all rows emitted by one relation step of Joiner.join bind the same
\* sources: every row that reaches a step has the shape of the first row
\* that step received, the rows of the last step all have one shape, and
\* no step ever raises for a row of another shape.
C27_OneShapePerStep ==
  mode = "join" =>
    /\ \A i \in 1..K :
         (ctl.at = i /\ ctl.msg = "row" /\ first_srcs[i].set)
           => RowKeys(val) = first_srcs[i].keys
    /\ \A n \in 1..Len(out) : RowKeys(out[n]) = RowKeys(out[1])
    /\ (ctl.at = K + 1 /\ ctl.msg = "row" /\ out # <<>>) => RowKeys(val) = RowKeys(out[1])
    /\ err # "InconsistentColumns"

\* Witness: the second step of a join of three sources has received its
\* second row, after the first one went on to the list.
C27_Witness ==
  /\ mode = "join" /\ K = 2
  /\ ctl.at = 2 /\ ctl.msg = "row"
  /\ first_srcs[2].set /\ Cardinality(first_srcs[2].keys) = 2
  /\ Len(out) >= 1 /\ Cardinality(RowKeys(out[1])) = 3

\* ---- C28 ----
\* The items the construction scan of the Index at loc records: one for
\* each line of its source, in the order of the lines.
C28_Scanned(loc) ==
  [n \in 1..Len(sources[loc.src + 1]) |->
     IndexItem(KeyOf(Rstrip(sources[loc.src + 1][n]), loc.col),
               OffsetOf(sources[loc.src + 1], n))]

\* The items of a sequence that have the key k, in their order.
RECURSIVE C28_WithKey(_, _)
C28_WithKey(items, k) ==
  IF items = <<>> THEN <<>>
  ELSE IF Head(items).key = k THEN <<Head(items)>> \o C28_WithKey(Tail(items), k)
  ELSE C28_WithKey(Tail(items), k)

\* C28: a join run never alters an Index after it is built: at every point
\* of the run each cached Index is the one Index.new made, and it holds
\* exactly the items its scan recorded, the items of each key in one
\* bucket that is never empty.
C28_IndexNeverAltered ==
  mode = "run" =>
    \A loc \in DOMAIN cache :
      /\ cache[loc] = IndexNew(sources, seekable, loc.src, loc.col).index
      /\ \A b \in 1..Len(cache[loc].buckets) :
           /\ cache[loc].buckets[b].items # <<>>
           /\ cache[loc].buckets[b].items
                = C28_WithKey(C28_Scanned(loc), cache[loc].buckets[b].key)
      /\ \A n \in 1..Len(C28_Scanned(loc)) : HasBucket(cache[loc], C28_Scanned(loc)[n].key)

\* Witness: a run over two relations has ended with a line; its lookups
\* found keys and missed others, and three indices are cached.
C28_Witness ==
  /\ mode = "run" /\ ctl.msg = "end" /\ K = 2
  /\ lines # <<>>
  /\ Cardinality(DOMAIN cache) >= 3
  /\ \E loc \in DOMAIN cache : Len(cache[loc].buckets) = 2

\* ---- C29 ----
\* C29: Joiner.join emits the same sequence of rows with dbg=True, each
\* relation's rows materialized into a list before the next relation
\* starts, as with dbg=False, the relations chained lazily.
C29_DbgSameRows ==
  (mode = "join" /\ dbg.on /\ ctl.msg \in {"end", "raised"}) =>
    /\ ctl.msg = "end"
    /\ out = stored[1]

\* Witness: a key of two relations joined three sources into two rows or
\* more, and the join with dbg=True has ended after materializing the two
\* rows or more of its first relation.
C29_Witness ==
  /\ mode = "join" /\ dbg.on /\ ctl.msg = "end"
  /\ Len(dbg.key) = 2 /\ dbg.i = 2
  /\ Len(dbg.rows) >= 2 /\ dbg.pos = Len(dbg.rows)
  /\ Len(out) >= 2
  /\ \A n \in 1..Len(out) : RowKeys(out[n]) = {0, 1, 2}

\* ---- C30 ----
\* The emitted lines that a seed value matched: in perfect mode the ones
\* whose stripped text is the value, else the ones found by the value.
C30_EmittedFor(v) ==
  {n \in 1..Len(grep.hits) :
     IF grep.perfect THEN StrRstrip(grep.hits[n].line) = v
                     ELSE grep.hits[n].target = v}

\* C30: with max_matches = n > 0, in substring and in perfect mode, on
\* lines with or without a newline, the run goes to the end of the source
\* without raising and emits at most n lines per seed value.
C30_LimitPerSeedValue ==
  (mode = "setgrep" /\ grep.max_matches > 0) =>
    /\ grep.at # "raised"
    /\ \A v \in SeedValues(grep.target) :
         Cardinality(C30_EmittedFor(v)) <= grep.max_matches

\* The part of it the code keeps: in substring mode, and in perfect mode
\* on lines that str.rstrip() leaves as they are.
C30_LimitOnStrippedLines ==
  (/\ mode = "setgrep" /\ grep.max_matches > 0
   /\ grep.perfect => \A n \in 1..Len(grep.source) :
                        StrRstrip(grep.source[n]) = grep.source[n]) =>
    /\ grep.at # "raised"
    /\ \A v \in SeedValues(grep.target) :
         Cardinality(C30_EmittedFor(v)) <= grep.max_matches

\* In perfect mode a line that ends in a newline was emitted max_matches
\* times, and the next such line made Seed.remove raise KeyError.
C30_RaisedOnNewline ==
  /\ mode = "setgrep" /\ grep.perfect /\ grep.at = "raised"
  /\ err = "KeyError"
  /\ Len(lines) = grep.max_matches
  /\ grep.source[grep.pos] = <<"t", "\n">>

====
